---- MODULE Spec2Model ----
(***************************************************************************)
(* tgstreamer: the HTTP streaming relay (server/index.ts, both the         *)
(* downloadAsStream and the downloadAsIterable handler), the rate limiter  *)
(* (server/middleware/rate-limit.ts) and the token registry                *)
(* (server/utils/file-store.ts).                                           *)
(*                                                                         *)
(* Specifications:                                                         *)
(*   Spec       request sessions of handleStreamRequest, with identity     *)
(*   SpecAdmit  the rate limiter under the handler's admit/release calls   *)
(*   SpecSlice  the slicing transform over the chunks of one download      *)
(*   SpecStore  the token registry: register, look up, save, restart       *)
(*   SpecRange  Range parsing and the response headers of one request      *)
(*   SpecSliceFair  SpecSlice where a pipe that ended is eventually settled *)
(*   SpecBot    the bot's media handler (bot/handlers/media.ts) and the     *)
(*              allow-list (bot/middleware/auth.ts) before the registry     *)
(*   SpecRoute  the request listener: /health, stream and download routes, *)
(*              everything else                                            *)
(*   SpecSave   the debounced save of the registry and the shutdown handler*)
(*   SpecSaveFair  SpecSave where time passes and due timers fire          *)
(*   SpecLoad   loadStore over the files that can lie on disk              *)
(*   SpecStall  the stall detector of either handler against progress      *)
(*   SpecPipe   the iterable handler's downloads, throttle and pipe chain  *)
(*   SpecEvict  registerFile's eviction loop, an iteration at a time       *)
(*   SpecEvictFair  SpecEvict where the loop keeps running                 *)
(*   SpecEnd    the stall detection over every window, empty ones included *)
(*   SpecEndFair  SpecEnd where time passes and the timers fire            *)
(***************************************************************************)
EXTENDS Integers, Sequences, FiniteSets, Bags, TLC

VARIABLES
    \* rate-limit.ts module state
    activeStreamsPerToken,  \* Map<string, number>
    streamsPerIP,           \* Map<string, number>
    totalActiveStreams,     \* number
    \* file-store.ts module state
    store,                  \* { entries, order }
    saveTimeout,            \* a save timer is pending
    disk,                   \* bot-data/file-store.json
    maxEntries,             \* env.MAX_FILE_ENTRIES of the running process
    regLog,                 \* history: every registerFile call, oldest first
    bootAt,                 \* history: Len(regLog) when the process started
    lookup,                 \* the last getFileEntry call and its result
    \* server/index.ts
    variant,                \* which handler is deployed: "stream" | "iterable"
    sess,                   \* one record per HTTP request
    \* SpecAdmit: decrementStreamCount calls the handler still owes
    held,                   \* bag of <<token, clientIP>>
    sinceRelease,           \* admits since the last release, per token and overall
    \* SpecSlice: one streaming session's sliceTransform
    sl,
    \* SpecRange: one request, its Range header and the headers it is answered with
    rq,
    \* SpecBot: env.ALLOWED_USERS, the last message handled and who got tokens
    bot,
    \* SpecRoute: the last request routed by the server and its answer
    rt,
    \* SpecSave: the clock, the pending save timers and the writes made
    sv,
    \* SpecLoad: the file found at startup, the store loaded from it, the last call
    ld,
    \* SpecStall: one streaming session against the clock
    stl,
    \* SpecPipe: one session of the iterable handler, its downloads and its pipe
    pp,
    \* SpecEvict: one registerFile call, an iteration of its loop at a time
    ev

vars == <<activeStreamsPerToken, streamsPerIP, totalActiveStreams, store,
          saveTimeout, disk, maxEntries, regLog, bootAt, lookup,
          variant, sess, held, sinceRelease, sl, rq, bot, rt, sv, ld, stl, pp, ev>>
rlVars == <<activeStreamsPerToken, streamsPerIP, totalActiveStreams>>
storeVars == <<store, saveTimeout, disk, maxEntries, regLog, bootAt, lookup>>
admitVars == <<held, sinceRelease>>
sliceVars == <<sl>>
rangeVars == <<rq>>
botVars == <<bot>>
routeVars == <<rt>>
saveVars == <<sv>>
loadVars == <<ld>>
stallVars == <<stl>>
pipeVars == <<pp>>
evictVars == <<ev>>

----------------------------------------------------------------------------
(* config/env.ts defaults *)
MAX_CONCURRENT_STREAMS == 2
MAX_TOTAL_STREAMS == 4
MAX_USERS == 1

(* config/constants.ts *)
ALIGN_LARGE_FILE == 1024 * 1024
ALIGN_SMALL_FILE == 4 * 1024
LARGE_FILE_THRESHOLD == 10 * 1024 * 1024

(* model bounds *)
NumSessions == 2
MaxHeld == 5
MaxCleanupCalls == 4
MaxChunks == 4
MaxRegs == 4
MaxEntriesBound == 2
MaxTime == 6
MaxParts == 9
MaxPool == 2
MaxShifts == 3

TokenOrder == <<"t1", "t2", "">>
Tokens == {"t1", "t2"}
UnknownToken == "tx"
ClientIPSeq == <<"ip1", "ip2", "">>
ClientIPs == {"ip1", "ip2"}
Sessions == 1..NumSessions

Variants == {"stream", "iterable"}
NoSlice == [fileSize |-> 0]
NoRequest == [stage |-> "none"]
NoLoad == [phase |-> "none"]
NoStall == [total |-> 0]
NoPipe == [phase |-> "idle"]
NoEvict == [phase |-> "none"]
NoRoute == [pathname |-> << >>, status |-> 0, text |-> "", counted |-> FALSE]
NoBot == [allowedUsers |-> {}, sender |-> 0, reply |-> "", token |-> "", grants |-> {}]
NoAdmits == [t \in Tokens \cup {"any"} |-> 0]

Min(a, b) == IF a < b THEN a ELSE b
Max(a, b) == IF a > b THEN a ELSE b

----------------------------------------------------------------------------
(* JavaScript Map<string, number>: a function on the set of present keys *)
EmptyMap == [k \in {} |-> 0]
MapHas(m, k) == k \in DOMAIN m
MapSet(m, k, v) == [x \in (DOMAIN m) \cup {k} |-> IF x = k THEN v ELSE m[x]]
MapDelete(m, k) == [x \in (DOMAIN m) \ {k} |-> m[x]]
MapSize(m) == Cardinality(DOMAIN m)
\* m.get(k) || d : undefined and 0 are both falsy
MapGetOr(m, k, d) == IF MapHas(m, k) /\ m[k] # 0 THEN m[k] ELSE d
RECURSIVE MapSum(_)
MapSum(m) ==
    IF DOMAIN m = {} THEN 0
    ELSE LET k == CHOOSE x \in DOMAIN m : TRUE
         IN m[k] + MapSum(MapDelete(m, k))

----------------------------------------------------------------------------
(* rate-limit.ts, on the module state as a record *)
RL == [tok |-> activeStreamsPerToken, ips |-> streamsPerIP,
       total |-> totalActiveStreams]

SetRLInit ==
    /\ activeStreamsPerToken = EmptyMap
    /\ streamsPerIP = EmptyMap
    /\ totalActiveStreams = 0

SetRL(rl) ==
    /\ activeStreamsPerToken' = rl.tok
    /\ streamsPerIP' = rl.ips
    /\ totalActiveStreams' = rl.total

Allowed == [allowed |-> TRUE, reason |-> "none"]
Rejected(why) == [allowed |-> FALSE, reason |-> why]

\* the global limit checked first
checkRateLimitGlobalFirst(rl, token, clientIP) ==
    LET currentStreams == MapGetOr(rl.tok, token, 0)
        ipStreams == MapGetOr(rl.ips, clientIP, 0)
        activeUsers == MapSize(rl.ips)
    IN  IF rl.total >= MAX_TOTAL_STREAMS
        THEN Rejected("Global limit reached")
        ELSE IF currentStreams >= MAX_CONCURRENT_STREAMS
        THEN Rejected("Per-file limit reached")
        ELSE IF ipStreams = 0 /\ activeUsers >= MAX_USERS
        THEN Rejected("Max users reached")
        ELSE Allowed

\* the limits compared with > instead of >=
checkRateLimitOffByOne(rl, token, clientIP) ==
    LET currentStreams == MapGetOr(rl.tok, token, 0)
        ipStreams == MapGetOr(rl.ips, clientIP, 0)
        activeUsers == MapSize(rl.ips)
    IN  IF currentStreams > MAX_CONCURRENT_STREAMS
        THEN Rejected("Per-file limit reached")
        ELSE IF ipStreams = 0 /\ activeUsers > MAX_USERS
        THEN Rejected("Max users reached")
        ELSE IF rl.total > MAX_TOTAL_STREAMS
        THEN Rejected("Global limit reached")
        ELSE Allowed

checkRateLimit(rl, token, clientIP) ==
    LET currentStreams == MapGetOr(rl.tok, token, 0)
        ipStreams == MapGetOr(rl.ips, clientIP, 0)
        activeUsers == MapSize(rl.ips)
    IN  IF currentStreams >= MAX_CONCURRENT_STREAMS
        THEN Rejected("Per-file limit reached")
        ELSE IF ipStreams = 0 /\ activeUsers >= MAX_USERS
        THEN Rejected("Max users reached")
        ELSE IF rl.total >= MAX_TOTAL_STREAMS
        THEN Rejected("Global limit reached")
        ELSE Allowed

incrementStreamCount(rl, token, clientIP) ==
    LET currentStreams == MapGetOr(rl.tok, token, 0)
        ipStreams == MapGetOr(rl.ips, clientIP, 0)
    IN  [tok |-> MapSet(rl.tok, token, currentStreams + 1),
         ips |-> MapSet(rl.ips, clientIP, ipStreams + 1),
         total |-> rl.total + 1]

\* a release that forgets the per-token map
decrementStreamCountKeepsToken(rl, token, clientIP) ==
    LET ipCount == MapGetOr(rl.ips, clientIP, 1)
    IN  [tok |-> rl.tok,
         ips |-> IF ipCount <= 1 THEN MapDelete(rl.ips, clientIP)
                 ELSE MapSet(rl.ips, clientIP, ipCount - 1),
         total |-> Max(0, rl.total - 1)]

decrementStreamCount(rl, token, clientIP) ==
    LET count == MapGetOr(rl.tok, token, 1)
        ipCount == MapGetOr(rl.ips, clientIP, 1)
    IN  [tok |-> IF count <= 1 THEN MapDelete(rl.tok, token)
                 ELSE MapSet(rl.tok, token, count - 1),
         ips |-> IF ipCount <= 1 THEN MapDelete(rl.ips, clientIP)
                 ELSE MapSet(rl.ips, clientIP, ipCount - 1),
         total |-> Max(0, rl.total - 1)]

----------------------------------------------------------------------------
(* file-store.ts *)
FileEntryOf(id, size) == [fileId |-> id, fileSize |-> size]
NotFound == [fileId |-> "", fileSize |-> -1]
EmptyStore == [entries |-> [t \in {} |-> NotFound], order |-> << >>]
Missing == [exists |-> FALSE, data |-> EmptyStore]
NoLookup == [token |-> "", result |-> NotFound]
NoSave == [now |-> 0, timers |-> << >>, lastMut |-> 0, writesSinceMut |-> 0,
           failed |-> FALSE, exited |-> FALSE, pendingAtExit |-> FALSE,
           atExit |-> EmptyStore]

getFileEntry(st, token) ==
    IF token \in DOMAIN st.entries THEN st.entries[token] ELSE NotFound

\* a registry that orders by access: the token read moves to the back
getFileEntryTouch(st, token) ==
    IF token \in DOMAIN st.entries
    THEN [st EXCEPT !.order = Append(SelectSeq(@, LAMBDA t : t # token), token)]
    ELSE st

\* the store after getFileEntry(token), which only reads store.entries[token]
afterGetFileEntry(st, token) == st

\* const oldestToken = store.order.shift(); delete store.entries[oldestToken]
shiftOldest(st) ==
    [entries |-> [t \in (DOMAIN st.entries) \ {Head(st.order)} |-> st.entries[t]],
     order |-> Tail(st.order)]

\* the loop condition with > for >=
atLimitLate(st, max) == Len(st.order) > max

\* while (store.order.length >= env.MAX_FILE_ENTRIES)
atLimit(st, max) == Len(st.order) >= max

RECURSIVE evictOldest(_, _)
evictOldest(st, max) ==
    IF atLimit(st, max) THEN evictOldest(shiftOldest(st), max) ELSE st

\* registerFile(entry), with token the value generateToken() returned
registerFile(st, max, entry, token) ==
    LET kept == evictOldest(st, max)
    IN  [entries |-> [t \in (DOMAIN kept.entries) \cup {token} |->
                        IF t = token THEN entry ELSE kept.entries[t]],
         order |-> Append(kept.order, token)]

\* loadStore(): the parsed file replaces the store as it is
loadStore(file) == IF file.exists THEN file.data ELSE EmptyStore

\* a registry holding two files, for the specifications of the HTTP side
TwoFiles ==
    [entries |-> [t \in Tokens |-> FileEntryOf(t, 3)], order |-> <<"t1", "t2">>]

StoreFixed ==
    /\ store = TwoFiles
    /\ saveTimeout = FALSE
    /\ disk = Missing
    /\ maxEntries = MaxEntriesBound
    /\ regLog = << >>
    /\ bootAt = 0
    /\ lookup = NoLookup

----------------------------------------------------------------------------
(* server/index.ts: one record per HTTP request *)
IdleSession ==
    [phase |-> "idle", token |-> "", ip |-> "",
     listening |-> FALSE,    \* req.on('close', ...) registered
     stallArmed |-> FALSE,   \* stallTimeout pending (setTimeout / setInterval)
     piping |-> "none",      \* "none" | "active" | "settled"
     cleanedUp |-> FALSE,
     complete |-> FALSE,     \* written >= chunkSize
     closed |-> FALSE,       \* the request's 'close' event was emitted
     released |-> 0,         \* decrementStreamCount calls made for this request
     aborts |-> 0,           \* abortController.abort() calls
     cleanupCalls |-> 0,     \* cleanup() invocations, saturating
     method |-> "",          \* req.method of an admitted request
     threw |-> "none",       \* where the try block threw
     status |-> 0,           \* the status given to res.writeHead, 0 before
     text |-> "",            \* the plain text given to res.end
     fetch |-> FALSE,        \* tg.downloadAsStream / downloadAsIterable called
     destroyed |-> FALSE]    \* res.destroy() called

Methods == {"GET", "HEAD"}
\* where the try block may throw: building the headers, after writeHead,
\* after req.on('close') (downloadAsStream, TransformStream, Writable.toWeb),
\* after the stall timer is set (pipeThrough / pipeTo / pipe)
Faults == {"none", "preHeaders", "postHeaders", "postListener", "postTimer"}
FaultsOf(method) ==
    IF method = "HEAD" THEN {"none", "preHeaders", "postHeaders"} ELSE Faults

\* the request passed checkRateLimit and incrementStreamCount ran for it
Admitted(rec) == rec.phase \in {"head", "failed", "streaming"}

\* cleanup() without its guard
CleanupGuardMissing(rec) == FALSE

\* the guard of cleanup(): if (cleanedUp) return
CleanupGuard(rec) == rec.cleanedUp

\* cleanup(reason) of a session, on <<session record, rate-limit state>>
cleanup(rec, rl) ==
    LET called == [rec EXCEPT !.cleanupCalls = Min(@ + 1, MaxCleanupCalls)]
    IN  IF CleanupGuard(rec)
        THEN [rec |-> called, rl |-> rl]
        ELSE [rec |-> [called EXCEPT !.cleanedUp = TRUE,
                                     !.stallArmed = FALSE,
                                     !.released = @ + 1,
                                     !.aborts = @ + 1],
              rl |-> decrementStreamCount(rl, rec.token, rec.ip)]

\* an error answered as a success
sendErrorMessageOk(rec, statusCode, message) ==
    [rec EXCEPT !.status = 200, !.text = message]

\* sendErrorMessage(res, statusCode, message)
sendErrorMessage(rec, statusCode, message) ==
    [rec EXCEPT !.status = statusCode, !.text = message]

\* the HEAD branch never taken
IsHeadNever(method) == FALSE

\* if (req.method === 'HEAD')
IsHead(method) == method = "HEAD"

NotFoundText == "File not found or link expired"
FailedText == "Failed to stream file"

\* res.headersSent read as always true
headersSentAlways(rec) == TRUE

\* res.headersSent
headersSent(rec) == rec.status # 0

\* the catch block of handleStreamRequest, the try block having thrown at fault
catchRelease(rec, rl, fault) ==
    [rec |-> [rec EXCEPT !.phase = "failed", !.released = @ + 1,
                         !.threw = fault,
                         !.status = IF headersSent(rec) THEN @ ELSE 500,
                         !.text = FailedText],
     rl |-> decrementStreamCount(rl, rec.token, rec.ip)]

\* the whole synchronous body of handleStreamRequest (it never awaits), for
\* a request without a Range header (status 200 once the headers are written)
handleStreamRequestResult(rl, token, clientIP, method, fault) ==
    LET fileEntry == getFileEntry(store, token)
        rateLimit == checkRateLimit(rl, token, clientIP)
        rl1 == incrementStreamCount(rl, token, clientIP)
        admitted == [IdleSession EXCEPT !.token = token, !.ip = clientIP,
                                        !.method = method]
        flushed == [admitted EXCEPT !.status = 200]
    IN  IF fileEntry = NotFound
        THEN [rec |-> [IdleSession EXCEPT !.phase = "notfound", !.status = 404,
                                          !.text = NotFoundText],
              rl |-> rl]
        ELSE IF ~rateLimit.allowed
        THEN [rec |-> sendErrorMessage([IdleSession EXCEPT !.phase = "rejected"],
                                       503, rateLimit.reason),
              rl |-> rl]
        ELSE IF fault = "preHeaders"
        THEN catchRelease(admitted, rl1, fault)
        ELSE IF fault = "postHeaders"
        THEN catchRelease(flushed, rl1, fault)
        ELSE IF IsHead(method)
        THEN [rec |-> [flushed EXCEPT !.phase = "head", !.released = 1],
              rl |-> decrementStreamCount(rl1, token, clientIP)]
        ELSE IF fault = "postListener"
        THEN catchRelease([flushed EXCEPT !.listening = TRUE], rl1, fault)
        ELSE IF fault = "postTimer"
        THEN catchRelease([flushed EXCEPT !.listening = TRUE,
                                          !.fetch = TRUE,
                                          !.stallArmed = TRUE], rl1, fault)
        ELSE [rec |-> [flushed EXCEPT !.phase = "streaming",
                                      !.listening = TRUE,
                                      !.fetch = TRUE,
                                      !.stallArmed = TRUE,
                                      !.piping = "active"],
              rl |-> rl1]

Apply(s, result) ==
    /\ \E res \in {result} :
        /\ sess' = [sess EXCEPT ![s] = res.rec]
        /\ SetRL(res.rl)
    /\ UNCHANGED <<storeVars, variant, admitVars, sliceVars, rangeVars, botVars, routeVars, saveVars, loadVars, stallVars, pipeVars, evictVars>>

\* clients and registered tokens are named in the order in which admitted
\* requests first brought them: a request comes from a client seen before or
\* from the next new one, and asks for a token seen before or the next new one
SeenIPs == {sess[x].ip : x \in Sessions} \ {""}
SeenTokens == {sess[x].token : x \in Sessions} \ {""}
NextIPs == {ip \in ClientIPs : ip \in SeenIPs \/ ip = ClientIPSeq[Cardinality(SeenIPs) + 1]}
NextTokens == {t \in Tokens : t \in SeenTokens \/ t = TokenOrder[Cardinality(SeenTokens) + 1]}

\* requests are numbered in order of arrival
HandleStreamRequest(s) ==
    /\ sess[s].phase = "idle"
    /\ (s > 1 => sess[s - 1].phase # "idle")
    /\ \E token \in NextTokens \cup {UnknownToken}, clientIP \in NextIPs,
          method \in Methods :
         \E fault \in FaultsOf(method) :
            Apply(s, handleStreamRequestResult(RL, token, clientIP, method, fault))

\* req 'close': the connection ended (client disconnect, response finished
\* or destroyed); emitted once per request
ReqClose(s) ==
    /\ sess[s].phase # "idle"
    /\ ~sess[s].closed
    /\ LET rec == [sess[s] EXCEPT !.closed = TRUE]
       IN  Apply(s, IF rec.listening THEN cleanup(rec, RL)
                    ELSE [rec |-> rec, rl |-> RL])

\* sliceTransform.transform on the chunk that brings written to chunkSize;
\* the iterable handler calls cleanup('stream complete') inside it
TransformLast(s) ==
    /\ sess[s].piping = "active"
    /\ ~sess[s].complete
    /\ LET rec == [sess[s] EXCEPT !.complete = TRUE]
       IN  Apply(s, IF variant = "iterable" THEN cleanup(rec, RL)
                    ELSE [rec |-> rec, rl |-> RL])

\* stream handler: pipeTo(...).then(() => cleanup('stream complete'))
PipeResolved(s) ==
    /\ variant = "stream"
    /\ sess[s].piping = "active"
    /\ sess[s].complete
    /\ Apply(s, cleanup([sess[s] EXCEPT !.piping = "settled"], RL))

\* stream handler: pipeTo(...).catch(... cleanup('stream error'))
PipeRejected(s) ==
    /\ variant = "stream"
    /\ sess[s].piping = "active"
    /\ Apply(s, cleanup([sess[s] EXCEPT !.piping = "settled"], RL))

\* the stall test applied whatever the session's state
StallAppliesAlways(rec) == TRUE

\* if (!cleanedUp && written < chunkSize), the elapsed time apart
StallApplies(rec) == ~rec.cleanedUp /\ ~rec.complete

\* cleanup('stall timeout'); res.destroy()
stallKill(rec, rl) ==
    LET res == cleanup(rec, rl)
    IN  [rec |-> [res.rec EXCEPT !.destroyed = TRUE], rl |-> res.rl]

\* stream handler: the one-shot setTimeout(..., 120000)
StallTimeout(s) ==
    /\ variant = "stream"
    /\ sess[s].stallArmed
    /\ LET rec == [sess[s] EXCEPT !.stallArmed = FALSE]
       IN  Apply(s, IF StallApplies(rec)
                    THEN stallKill(rec, RL)
                    ELSE [rec |-> rec, rl |-> RL])

\* iterable handler: the setInterval(..., 30000) check; stalled stands for
\* Date.now() - lastProgress > 120000
StallCheck(s) ==
    /\ variant = "iterable"
    /\ sess[s].stallArmed
    /\ \E stalled \in BOOLEAN :
         Apply(s, IF stalled /\ StallApplies(sess[s])
                  THEN stallKill(sess[s], RL)
                  ELSE [rec |-> sess[s], rl |-> RL])

\* iterable handler: sliceTransform.on('end', ...)
SliceEnd(s) ==
    /\ variant = "iterable"
    /\ sess[s].piping = "active"
    /\ sess[s].complete
    /\ Apply(s, cleanup([sess[s] EXCEPT !.piping = "settled"], RL))

\* iterable handler: readable 'error', sliceTransform 'error', res 'error'
StreamError(s) ==
    /\ variant = "iterable"
    /\ sess[s].piping = "active"
    /\ Apply(s, cleanup([sess[s] EXCEPT !.piping = "settled"], RL))

Init ==
    /\ ev = NoEvict
    /\ pp = NoPipe
    /\ stl = NoStall
    /\ ld = NoLoad
    /\ sv = NoSave
    /\ rt = NoRoute
    /\ SetRLInit
    /\ StoreFixed
    /\ variant \in Variants
    /\ sess = [s \in Sessions |-> IdleSession]
    /\ held = EmptyBag
    /\ sinceRelease = NoAdmits
    /\ sl = NoSlice
    /\ rq = NoRequest
    /\ bot = NoBot

Next ==
    \E s \in Sessions :
        \/ HandleStreamRequest(s)
        \/ ReqClose(s)
        \/ TransformLast(s)
        \/ PipeResolved(s)
        \/ PipeRejected(s)
        \/ StallTimeout(s)
        \/ StallCheck(s)
        \/ SliceEnd(s)
        \/ StreamError(s)

Spec == Init /\ [][Next]_vars

----------------------------------------------------------------------------
(* SpecAdmit: the rate limiter driven by the calls handleStreamRequest makes.
   Sessions are anonymous: held is the bag of cleanup() calls still owed,
   "live" for a session that is streaming, "stale" for one whose catch block
   already released while its 'close' listener is still registered. *)

Owed(token, clientIP, kind) == SetToBag({<<token, clientIP, kind>>})

\* what one request for (token, clientIP) can do to the limiter, over every
\* method and every place the try block may throw
HandlerResults(token, clientIP) ==
    { handleStreamRequestResult(RL, token, clientIP, method, fault) :
        method \in Methods, fault \in Faults }

AdmitRequest(token, clientIP) ==
    /\ BagCardinality(held) < MaxHeld
    /\ \E res \in HandlerResults(token, clientIP) :
        \E admitted \in {Admitted(res.rec)}, releasedNow \in {res.rec.released > 0} :
            /\ SetRL(res.rl)
            /\ held' = IF res.rec.listening
                       THEN held (+) Owed(token, clientIP,
                                          IF releasedNow THEN "stale" ELSE "live")
                       ELSE held
            /\ sinceRelease' =
                   IF ~admitted THEN sinceRelease
                   ELSE IF releasedNow
                   THEN [sinceRelease EXCEPT ![token] = 0, !["any"] = 0]
                   ELSE [sinceRelease EXCEPT ![token] = @ + 1, !["any"] = @ + 1]
    /\ UNCHANGED <<storeVars, variant, sess, sliceVars, rangeVars, botVars, routeVars, saveVars, loadVars, stallVars, pipeVars, evictVars>>

\* an owed cleanup runs (close, completion, error or stall of that session)
ReleaseOwed(token, clientIP, kind) ==
    /\ BagIn(<<token, clientIP, kind>>, held)
    /\ SetRL(cleanup([IdleSession EXCEPT !.token = token, !.ip = clientIP], RL).rl)
    /\ held' = held (-) Owed(token, clientIP, kind)
    /\ sinceRelease' = [sinceRelease EXCEPT ![token] = 0, !["any"] = 0]
    /\ UNCHANGED <<storeVars, variant, sess, sliceVars, rangeVars, botVars, routeVars, saveVars, loadVars, stallVars, pipeVars, evictVars>>

InitAdmit ==
    /\ ev = NoEvict
    /\ pp = NoPipe
    /\ stl = NoStall
    /\ ld = NoLoad
    /\ sv = NoSave
    /\ rt = NoRoute
    /\ SetRLInit
    /\ StoreFixed
    /\ variant = "stream"
    /\ sess = [s \in Sessions |-> IdleSession]
    /\ held = EmptyBag
    /\ sinceRelease = NoAdmits
    /\ sl = NoSlice
    /\ rq = NoRequest
    /\ bot = NoBot

NextAdmit ==
    \/ \E token \in Tokens, clientIP \in ClientIPs :
         AdmitRequest(token, clientIP)
    \/ \E token \in Tokens, clientIP \in ClientIPs, kind \in {"live", "stale"} :
         ReleaseOwed(token, clientIP, kind)

SpecAdmit == InitAdmit /\ [][NextAdmit]_vars

----------------------------------------------------------------------------
(* SpecSlice: the slicing of one streaming session.  A byte of the object is
   named by its offset, a buffer of object bytes by the half-open interval
   [lo, hi) of the offsets it holds; sl.out is what was forwarded to the
   response, piece by piece, in order. *)

Buf(lo, hi) == [lo |-> lo, hi |-> hi]
BufLen(b) == b.hi - b.lo
\* chunk.subarray(from)
SubarrayFrom(b, from) == Buf(Min(b.lo + from, b.hi), b.hi)
\* chunk.subarray(0, to)
SubarrayTo(b, to) == Buf(b.lo, Min(b.lo + to, b.hi))

\* the threshold taken inclusively
AlignOfInclusive(fileSize) ==
    IF fileSize >= LARGE_FILE_THRESHOLD THEN ALIGN_LARGE_FILE ELSE ALIGN_SMALL_FILE

\* Alignment for Telegram API
AlignOf(fileSize) ==
    IF fileSize > LARGE_FILE_THRESHOLD THEN ALIGN_LARGE_FILE ELSE ALIGN_SMALL_FILE
AlignedStart(fileSize, start) == (start \div AlignOf(fileSize)) * AlignOf(fileSize)

\* the limit step without the clamp
LimitNone(chunk, remaining) == chunk

\* if (chunk.length > remaining) chunk = chunk.subarray(0, remaining)
Limit(chunk, remaining) ==
    IF BufLen(chunk) > remaining THEN SubarrayTo(chunk, remaining) ELSE chunk

\* the end test passed one byte late
FinishedLate(st) == st.written > st.chunkSize

\* if (written >= chunkSize): terminate / push(null)
Finished(st) == st.written >= st.chunkSize

\* the session's locals once streaming is set up
SliceStart(fileSize, start, end) ==
    [fileSize |-> fileSize, start |-> start, end |-> end,
     chunkSize |-> end - start + 1,
     alignedStart |-> AlignedStart(fileSize, start),
     skipBytes |-> start - AlignedStart(fileSize, start),
     pos |-> AlignedStart(fileSize, start),  \* next offset the remote source yields
     bytesStreamed |-> 0, skipped |-> 0, written |-> 0,
     ended |-> FALSE,     \* controller.terminate() / this.push(null)
     cleanedUp |-> FALSE, \* cleanup('stream complete') ran from the transform
     chunks |-> 0,
     out |-> << >>]

\* sliceTransform.transform(chunk), both handlers
sliceTransform(st, chunk0) ==
    LET seen == [st EXCEPT !.bytesStreamed = @ + BufLen(chunk0)]
        skipping == st.skipped < st.skipBytes
        toSkip == Min(st.skipBytes - st.skipped, BufLen(chunk0))
        st1 == IF skipping THEN [seen EXCEPT !.skipped = @ + toSkip] ELSE seen
        chunk1 == IF skipping THEN SubarrayFrom(chunk0, toSkip) ELSE chunk0
        remaining == st.chunkSize - st.written
        chunk2 == Limit(chunk1, remaining)
        st2 == [st1 EXCEPT !.written = @ + BufLen(chunk2),
                           !.out = Append(@, chunk2)]
    IN  IF skipping /\ BufLen(chunk1) = 0 THEN st1
        ELSE IF remaining <= 0 THEN [st1 EXCEPT !.ended = TRUE]
        ELSE IF Finished(st2)
        THEN [st2 EXCEPT !.ended = TRUE,
                         !.cleanedUp = (variant = "iterable")]
        ELSE st2

\* the remote source yields its next chunk, of any length, and the transform
\* runs on it.  The stream handler's TransformStream takes no chunk once
\* terminated; the iterable handler's Transform may still be handed chunks
\* that were in flight when the download was aborted.
RemoteChunk(len) ==
    /\ sl.fileSize > 0
    /\ sl.chunks < MaxChunks
    /\ sl.pos < sl.fileSize
    /\ variant = "stream" => ~sl.ended
    /\ len >= 1 /\ sl.pos + len <= sl.fileSize
    /\ sl' = [sliceTransform(sl, Buf(sl.pos, sl.pos + len))
                EXCEPT !.pos = sl.pos + len, !.chunks = @ + 1]
    /\ UNCHANGED <<rlVars, storeVars, variant, sess, admitVars, rangeVars, botVars, routeVars, saveVars, loadVars, stallVars, pipeVars, evictVars>>

\* stream handler: after controller.terminate() the pipe closes the response
\* and pipeTo(...) settles; .then and .catch both call cleanup, which fires
\* abortController.abort().  A client that never drains the response has its
\* socket closed by the server timeout, and 'close' calls cleanup as well.
PipeToSettled ==
    /\ variant = "stream"
    /\ sl.fileSize > 0
    /\ sl.ended
    /\ ~sl.cleanedUp
    /\ sl' = [sl EXCEPT !.cleanedUp = TRUE]
    /\ UNCHANGED <<rlVars, storeVars, variant, sess, admitVars, rangeVars, botVars, routeVars, saveVars, loadVars, stallVars, pipeVars, evictVars>>

SliceSizes == {6, 5000, 10 * 1024 * 1024, 10 * 1024 * 1024 + 1, 20 * 1024 * 1024}
ProbeOffsets ==
    {0, 1, 5, 4095, 4097, 4999, 1048575, 1500000, 1500002, 20 * 1024 * 1024 - 1}
ChunkLens == {1, 3, 4096, 451424, 1048576}

InitSlice ==
    /\ ev = NoEvict
    /\ pp = NoPipe
    /\ stl = NoStall
    /\ ld = NoLoad
    /\ sv = NoSave
    /\ rt = NoRoute
    /\ SetRLInit
    /\ StoreFixed
    /\ variant \in Variants
    /\ sess = [s \in Sessions |-> IdleSession]
    /\ held = EmptyBag
    /\ sinceRelease = NoAdmits
    /\ \E fileSize \in SliceSizes, start \in ProbeOffsets, end \in ProbeOffsets :
          /\ 0 <= start /\ start <= end /\ end <= fileSize - 1
          /\ sl = SliceStart(fileSize, start, end)
    /\ rq = NoRequest
    /\ bot = NoBot

NextSlice ==
    \/ \E len \in ChunkLens \cup {sl.fileSize - sl.pos} : RemoteChunk(len)
    \/ PipeToSettled

SpecSlice == InitSlice /\ [][NextSlice]_vars

\* the pipe settles or the connection closes, and the callback runs
SpecSliceFair == SpecSlice /\ WF_vars(PipeToSettled)

----------------------------------------------------------------------------
(* SpecStore: the token registry of one deployment: registrations, lookups,
   the debounced save, and process restarts (the environment is read again
   and the store is loaded from disk at every start). *)

TokenSeq == <<"k1", "k2", "k3", "k4", "k5", "k6">>
TokenPool == {TokenSeq[i] : i \in 1..Len(TokenSeq)}

\* the files users send to the bot, each its own entry, named in the order sent
Entries == {FileEntryOf("f", n) : n \in 1..MaxRegs}
nextEntry == {e \in Entries : e.fileSize = Len(regLog) + 1}

\* every token generateToken has returned so far
issued == {regLog[i].token : i \in 1..Len(regLog)}

\* generateToken returned some token twice
collided == \E i, j \in 1..Len(regLog) : i < j /\ regLog[i].token = regLog[j].token

\* generateToken(): a random string, which is a token returned before or a new
\* one; new tokens are named in the order of their first appearance
generateToken ==
    issued \cup {TokenSeq[i] : i \in {Cardinality(issued) + 1} \cap DOMAIN TokenSeq}

\* handleMedia -> registerFile(entry); saveStore() arms the debounce timer
RegisterFile(entry, token) ==
    /\ Len(regLog) < MaxRegs
    /\ store' = registerFile(store, maxEntries, entry, token)
    /\ saveTimeout' = TRUE
    /\ regLog' = Append(regLog, [token |-> token, entry |-> entry])
    /\ UNCHANGED <<disk, maxEntries, bootAt, lookup>>
    /\ UNCHANGED <<rlVars, variant, sess, admitVars, sliceVars, rangeVars, botVars, routeVars, saveVars, loadVars, stallVars, pipeVars, evictVars>>

\* handleStreamRequest -> getFileEntry(token)
GetFileEntry(token) ==
    /\ lookup' = [token |-> token, result |-> getFileEntry(store, token)]
    /\ store' = afterGetFileEntry(store, token)
    /\ UNCHANGED <<saveTimeout, disk, maxEntries, regLog, bootAt>>
    /\ UNCHANGED <<rlVars, variant, sess, admitVars, sliceVars, rangeVars, botVars, routeVars, saveVars, loadVars, stallVars, pipeVars, evictVars>>

\* the debounce timer fires: fs.writeFileSync(STORE_FILE, JSON.stringify(store)),
\* which may fail (caught and logged)
SaveTimerFires ==
    /\ saveTimeout
    /\ saveTimeout' = FALSE
    /\ \E ok \in BOOLEAN :
         disk' = IF ok THEN [exists |-> TRUE, data |-> store] ELSE disk
    /\ UNCHANGED <<store, maxEntries, regLog, bootAt, lookup>>
    /\ UNCHANGED <<rlVars, variant, sess, admitVars, sliceVars, rangeVars, botVars, routeVars, saveVars, loadVars, stallVars, pipeVars, evictVars>>

\* the process ends and a new one starts: env is parsed again, loadStore()
\* runs at module initialization, a pending save timer is gone
Restart(newMax) ==
    /\ maxEntries' = newMax
    /\ store' = loadStore(disk)
    /\ saveTimeout' = FALSE
    /\ bootAt' = Len(regLog)
    /\ lookup' = NoLookup
    /\ UNCHANGED <<disk, regLog>>
    /\ UNCHANGED <<rlVars, variant, sess, admitVars, sliceVars, rangeVars, botVars, routeVars, saveVars, loadVars, stallVars, pipeVars, evictVars>>

InitStore ==
    /\ ev = NoEvict
    /\ pp = NoPipe
    /\ stl = NoStall
    /\ ld = NoLoad
    /\ sv = NoSave
    /\ rt = NoRoute
    /\ SetRLInit
    /\ variant = "stream"
    /\ sess = [s \in Sessions |-> IdleSession]
    /\ held = EmptyBag
    /\ sinceRelease = NoAdmits
    /\ sl = NoSlice
    /\ rq = NoRequest
    /\ bot = NoBot
    /\ disk = Missing
    /\ maxEntries \in 1..MaxEntriesBound
    /\ store = loadStore(disk)
    /\ saveTimeout = FALSE
    /\ regLog = << >>
    /\ bootAt = 0
    /\ lookup = NoLookup

NextStore ==
    \/ \E entry \in nextEntry, token \in generateToken : RegisterFile(entry, token)
    \/ \E token \in generateToken : GetFileEntry(token)
    \/ SaveTimerFires
    \/ \E newMax \in 1..MaxEntriesBound : Restart(newMax)

SpecStore == InitStore /\ [][NextStore]_vars

----------------------------------------------------------------------------
(* SpecRange: handleStreamRequest from the Range header to writeHead. A
   header value is a sequence of one-character strings. *)

DigitChars == <<"0", "1", "2", "3", "4", "5", "6", "7", "8", "9">>
Digits == {DigitChars[i] : i \in 1..10}
DigitValue(c) == (CHOOSE i \in 1..10 : DigitChars[i] = c) - 1

\* parseInt(text, 10) of a non-empty run of digits
RECURSIVE parseInt(_)
parseInt(text) ==
    IF Len(text) = 1 THEN DigitValue(text[1])
    ELSE parseInt(SubSeq(text, 1, Len(text) - 1)) * 10 + DigitValue(text[Len(text)])

\* `${n}` for an integer n
RECURSIVE NumberToString(_)
NumberToString(n) ==
    IF n < 0 THEN <<"-">> \o NumberToString(-n)
    ELSE IF n < 10 THEN <<DigitChars[n + 1]>>
    ELSE NumberToString(n \div 10) \o <<DigitChars[(n % 10) + 1]>>

BytesEq == <<"b", "y", "t", "e", "s", "=">>
BytesSp == <<"b", "y", "t", "e", "s", " ">>

\* \d* from position i: the index after the longest run of digits
RECURSIVE DigitRunEnd(_, _)
DigitRunEnd(text, i) ==
    IF i <= Len(text) /\ text[i] \in Digits THEN DigitRunEnd(text, i + 1) ELSE i

\* /bytes=(\d*)-(\d*)/ matches with its first character at position p
MatchAt(text, p) ==
    /\ p + Len(BytesEq) - 1 <= Len(text)
    /\ SubSeq(text, p, p + Len(BytesEq) - 1) = BytesEq
    /\ LET e1 == DigitRunEnd(text, p + Len(BytesEq))
       IN  e1 <= Len(text) /\ text[e1] = "-"

NoMatch == [found |-> FALSE, g1 |-> << >>, g2 |-> << >>]

\* rangeHeader.match(/bytes=(\d*)-(\d*)/): the leftmost match, the groups greedy
match(text) ==
    LET ps == {p \in 1..Len(text) : MatchAt(text, p)}
    IN  IF ps = {} THEN NoMatch
        ELSE LET p == CHOOSE q \in ps : \A r \in ps : q <= r
                 e1 == DigitRunEnd(text, p + Len(BytesEq))
                 e2 == DigitRunEnd(text, e1 + 1)
             IN  [found |-> TRUE,
                  g1 |-> SubSeq(text, p + Len(BytesEq), e1 - 1),
                  g2 |-> SubSeq(text, e1 + 1, e2 - 1)]

\* req.headers.range: undefined, or a string
NoHeader == [present |-> FALSE, text |-> << >>]
Header(text) == [present |-> TRUE, text |-> text]

\* if (rangeHeader): undefined and the empty string are falsy
Truthy(rangeHeader) == rangeHeader.present /\ Len(rangeHeader.text) > 0

\* the off-by-one of an exclusive end
chunkSizeExclusive(start, end) == end - start

\* const chunkSize = end - start + 1
chunkSize(start, end) == end - start + 1

\* start and end as the Range block leaves them
parseRange(fileSize, rangeHeader) ==
    LET m == IF Truthy(rangeHeader) THEN match(rangeHeader.text) ELSE NoMatch
    IN  [start |-> IF m.found /\ Len(m.g1) > 0 THEN parseInt(m.g1) ELSE 0,
         end |-> IF m.found /\ Len(m.g2) > 0 THEN parseInt(m.g2) ELSE fileSize - 1]

\* the status and the headers handed to res.writeHead
responseHead(fileSize, rangeHeader) ==
    LET r == parseRange(fileSize, rangeHeader)
    IN  [status |-> IF Truthy(rangeHeader) THEN 206 ELSE 200,
         start |-> r.start,
         end |-> r.end,
         contentLength |-> chunkSize(r.start, r.end),
         hasContentRange |-> Truthy(rangeHeader),
         contentRange |->
            IF Truthy(rangeHeader)
            THEN BytesSp \o NumberToString(r.start) \o <<"-">> \o NumberToString(r.end)
                    \o <<"/">> \o NumberToString(fileSize)
            ELSE << >>]

\* the try block of handleStreamRequest up to res.writeHead / flushHeaders
WriteHead ==
    /\ rq.stage = "received"
    /\ rq' = [rq EXCEPT !.stage = "headersSent",
                        !.head = responseHead(rq.fileSize, rq.range)]
    /\ UNCHANGED <<rlVars, storeVars, variant, sess, admitVars, sliceVars, botVars, routeVars, saveVars, loadVars, stallVars, pipeVars, evictVars>>

\* what clients send
RangeSizes == {1, 200, 1000}
RangeOffsets == {0, 7, 50, 100, 199, 999}
ClosedRange(a, b) == BytesEq \o NumberToString(a) \o <<"-">> \o NumberToString(b)
ZeroPadded(a, b) == BytesEq \o <<"0">> \o NumberToString(a) \o <<"-", "0", "0">> \o NumberToString(b)
OpenRange(a) == BytesEq \o NumberToString(a) \o <<"-">>
SuffixRange(n) == BytesEq \o <<"-">> \o NumberToString(n)
OtherHeaders ==
    {<< >>,
     <<"g", "a", "r", "b", "a", "g", "e">>,
     <<"b", "y", "t", "e", "s">>,
     BytesEq,
     BytesEq \o <<"a", "-", "b">>,
     BytesEq \o <<"7">>,
     <<"i", "t", "e", "m", "s", "=", "0", "-", "5">>,
     <<"x">> \o ClosedRange(0, 7) \o <<"x">>,
     BytesEq \o <<"7", "x", "-", "9">>,
     ClosedRange(0, 7) \o <<",">> \o <<"5", "0", "-", "9", "9">>,
     BytesEq \o <<"-">>}

\* a request: the header, and what the client meant by it
Requests ==
    {[range |-> NoHeader, kind |-> "none", a |-> 0, b |-> 0]}
    \cup {[range |-> Header(ClosedRange(a, b)), kind |-> "closed", a |-> a, b |-> b] :
            a \in RangeOffsets, b \in RangeOffsets}
    \cup {[range |-> Header(ZeroPadded(a, b)), kind |-> "closed", a |-> a, b |-> b] :
            a \in {7}, b \in {50, 199}}
    \cup {[range |-> Header(OpenRange(a)), kind |-> "open", a |-> a, b |-> 0] :
            a \in RangeOffsets}
    \cup {[range |-> Header(SuffixRange(n)), kind |-> "suffix", a |-> n, b |-> 0] :
            n \in RangeOffsets}
    \cup {[range |-> Header(text), kind |-> "other", a |-> 0, b |-> 0] :
            text \in OtherHeaders}

NoHead == [status |-> 0]

InitRange ==
    /\ ev = NoEvict
    /\ pp = NoPipe
    /\ stl = NoStall
    /\ ld = NoLoad
    /\ sv = NoSave
    /\ rt = NoRoute
    /\ SetRLInit
    /\ StoreFixed
    /\ variant \in Variants
    /\ sess = [s \in Sessions |-> IdleSession]
    /\ held = EmptyBag
    /\ sinceRelease = NoAdmits
    /\ sl = NoSlice
    /\ \E fileSize \in RangeSizes, r \in Requests :
          rq = [stage |-> "received", fileSize |-> fileSize, range |-> r.range,
                kind |-> r.kind, a |-> r.a, b |-> r.b, head |-> NoHead]
    /\ bot = NoBot

NextRange == WriteHead

SpecRange == InitRange /\ [][NextRange]_vars

----------------------------------------------------------------------------
(* SpecBot: the bot's media handler in front of the registry.  bot.grants is
   the set of senders that were given a token. *)

UserIds == {1, 2, 3}
MediaTypes == {"none", "sticker", "video", "document", "audio", "voice"}
NoMediaInfo == [fileId |-> "null", fileSize |-> -1]

\* a message: its sender and its media; the n-th file has size n
Messages ==
    {[sender |-> u, type |-> ty, fileId |-> id, fileSize |-> Len(regLog) + 1] :
        u \in UserIds, ty \in MediaTypes, id \in {"", "f"}}

\* the allow-list never consulted
isAllowedAll(allowedUsers, userId) == TRUE

\* isAllowed(userId)
isAllowed(allowedUsers, userId) ==
    IF Cardinality(allowedUsers) = 0 THEN TRUE ELSE userId \in allowedUsers

\* extractMediaInfo(msg), null for a media type that is not supported
extractMediaInfo(msg) ==
    IF msg.type \in {"video", "document", "audio", "voice"}
    THEN FileEntryOf(msg.fileId, msg.fileSize)
    ELSE NoMediaInfo

\* the reply of handleMedia when it does not register the file, "" when it does
refusal(allowedUsers, msg) ==
    IF ~isAllowed(allowedUsers, msg.sender) THEN "unauthorized"
    ELSE IF msg.type = "none" THEN "no media"
    ELSE IF extractMediaInfo(msg) = NoMediaInfo THEN "not supported"
    ELSE IF extractMediaInfo(msg).fileId = "" THEN "no file id"
    ELSE ""

\* handleMedia(msg), token being what generateToken returns if it is called
HandleMedia(msg, token) ==
    \E why \in {refusal(bot.allowedUsers, msg)} :
        IF why # ""
        THEN /\ bot' = [bot EXCEPT !.sender = msg.sender, !.reply = why, !.token = ""]
             /\ UNCHANGED <<storeVars, rlVars, variant, sess, admitVars, sliceVars,
                            rangeVars, routeVars, saveVars, loadVars, stallVars, pipeVars, evictVars>>
        ELSE /\ Len(regLog) < MaxRegs
             /\ store' = registerFile(store, maxEntries, extractMediaInfo(msg), token)
             /\ saveTimeout' = TRUE
             /\ regLog' = Append(regLog, [token |-> token,
                                          entry |-> extractMediaInfo(msg)])
             /\ bot' = [bot EXCEPT !.sender = msg.sender, !.reply = "file ready",
                                   !.token = token, !.grants = @ \cup {msg.sender}]
             /\ UNCHANGED <<disk, maxEntries, bootAt, lookup>>
             /\ UNCHANGED <<rlVars, variant, sess, admitVars, sliceVars, rangeVars, routeVars, saveVars, loadVars, stallVars, pipeVars, evictVars>>

InitBot ==
    /\ ev = NoEvict
    /\ pp = NoPipe
    /\ stl = NoStall
    /\ ld = NoLoad
    /\ sv = NoSave
    /\ rt = NoRoute
    /\ SetRLInit
    /\ variant = "stream"
    /\ sess = [s \in Sessions |-> IdleSession]
    /\ held = EmptyBag
    /\ sinceRelease = NoAdmits
    /\ sl = NoSlice
    /\ rq = NoRequest
    /\ disk = Missing
    /\ maxEntries = MaxEntriesBound
    /\ store = loadStore(disk)
    /\ saveTimeout = FALSE
    /\ regLog = << >>
    /\ bootAt = 0
    /\ lookup = NoLookup
    /\ \E allowedUsers \in SUBSET UserIds : bot = [NoBot EXCEPT !.allowedUsers = allowedUsers]

NextBot ==
    \E msg \in Messages, token \in generateToken : HandleMedia(msg, token)

SpecBot == InitBot /\ [][NextBot]_vars

----------------------------------------------------------------------------
(* SpecRoute: the request listener of startStreamServer in front of the
   handler.  A pathname is the sequence of its pieces between slashes, what
   pathname.split('/') returns: "/health" is <<"", "health">>. *)

HealthPath == <<"", "health">>

\* url.pathname.split('/').filter(Boolean)
pathParts(pathname) == SelectSeq(pathname, LAMBDA piece : piece # "")

\* url.pathname === '/health'
isHealth(pathname) == pathname = HealthPath

\* (pathParts[0] === 'stream' || pathParts[0] === 'download') && pathParts[1]
isStreamRoute(pathname) ==
    /\ Len(pathParts(pathname)) >= 2
    /\ pathParts(pathname)[1] \in {"stream", "download"}

\* the branch the listener takes
route(pathname) ==
    IF isHealth(pathname) THEN "health"
    ELSE IF isStreamRoute(pathname) THEN "stream"
    ELSE "unknown"

Pathnames ==
    { <<"">>, <<"", "">>, HealthPath, <<"", "health", "">>, <<"", "healthz">>,
      <<"", "stream">>, <<"", "stream", "">>, <<"", "other", "t1">>,
      <<"", "stream", "t1">>, <<"", "stream", "t2">>, <<"", "download", "t1">>,
      <<"", "stream", UnknownToken>>, <<"", "stream", "t1", "extra">>,
      <<"", "stream", "", "t2">> }

\* the request listener: one request for pathname from clientIP
Serve(pathname, clientIP) ==
    \E kind \in {route(pathname)} :
        IF kind = "health"
        THEN /\ rt' = [pathname |-> pathname, status |-> 200, text |-> "OK",
                       counted |-> FALSE]
             /\ UNCHANGED <<rlVars, storeVars, variant, sess, admitVars, sliceVars,
                            rangeVars, botVars, saveVars, loadVars, stallVars, pipeVars, evictVars>>
        ELSE IF kind = "unknown"
        THEN /\ rt' = [pathname |-> pathname, status |-> 404, text |-> "Not found",
                       counted |-> FALSE]
             /\ UNCHANGED <<rlVars, storeVars, variant, sess, admitVars, sliceVars,
                            rangeVars, botVars, saveVars, loadVars, stallVars, pipeVars, evictVars>>
        ELSE \E res \in {handleStreamRequestResult(RL, pathParts(pathname)[2],
                                                    clientIP, "GET", "none")} :
             /\ BagCardinality(held) < MaxHeld
             /\ SetRL(res.rl)
             /\ held' = IF res.rec.listening
                        THEN held (+) Owed(pathParts(pathname)[2], clientIP, "live")
                        ELSE held
             /\ rt' = [pathname |-> pathname, status |-> res.rec.status,
                       text |-> res.rec.text, counted |-> (res.rl # RL)]
             /\ UNCHANGED <<storeVars, variant, sess, sinceRelease, sliceVars,
                            rangeVars, botVars, saveVars, loadVars, stallVars, pipeVars, evictVars>>

InitRoute ==
    /\ ev = NoEvict
    /\ pp = NoPipe
    /\ stl = NoStall
    /\ ld = NoLoad
    /\ sv = NoSave
    /\ rt = NoRoute
    /\ SetRLInit
    /\ StoreFixed
    /\ variant = "stream"
    /\ sess = [s \in Sessions |-> IdleSession]
    /\ held = EmptyBag
    /\ sinceRelease = NoAdmits
    /\ sl = NoSlice
    /\ rq = NoRequest
    /\ bot = NoBot

NextRoute ==
    \/ \E pathname \in Pathnames, clientIP \in ClientIPs : Serve(pathname, clientIP)
    \/ \E token \in Tokens, clientIP \in ClientIPs : ReleaseOwed(token, clientIP, "live")

SpecRoute == InitRoute /\ [][NextRoute]_vars

----------------------------------------------------------------------------
(* SpecSave: the debounced save of the registry against a clock, and the
   shutdown handler.  One tick of sv.now is half a debounce window; sv.timers
   holds the deadline of every setTimeout that was neither cleared nor fired. *)

\* the 1000 ms of saveStore's setTimeout, in ticks
DebounceTicks == 2

\* saveStore() that sets a new timer and leaves the pending one
saveStoreKeepsTimer(timers, now) == Append(timers, now + DebounceTicks)

\* saveStore(): if (saveTimeout) clearTimeout(saveTimeout); saveTimeout = setTimeout(...)
saveStore(timers, now) == <<now + DebounceTicks>>

\* shutdown(): server?.close(); process.exit(0) -- the file as the exit leaves it
shutdown(file, st, timers) == file

\* registerFile(entry) while the process runs
Mutate(entry, token) ==
    /\ ~sv.exited
    /\ Len(regLog) < MaxRegs
    /\ sv.now + DebounceTicks <= MaxTime
    /\ store' = registerFile(store, maxEntries, entry, token)
    /\ regLog' = Append(regLog, [token |-> token, entry |-> entry])
    /\ sv' = [sv EXCEPT !.timers = saveStore(sv.timers, sv.now),
                        !.lastMut = sv.now, !.writesSinceMut = 0]
    /\ saveTimeout' = TRUE
    /\ UNCHANGED <<disk, maxEntries, bootAt, lookup>>
    /\ UNCHANGED <<rlVars, variant, sess, admitVars, sliceVars, rangeVars, botVars,
                   routeVars, loadVars, stallVars, pipeVars, evictVars>>

\* time passes; a timer fires at its deadline, before the clock moves past it
Tick ==
    /\ ~sv.exited
    /\ sv.now < MaxTime
    /\ \A i \in 1..Len(sv.timers) : sv.timers[i] > sv.now
    /\ sv' = [sv EXCEPT !.now = @ + 1]
    /\ UNCHANGED <<rlVars, storeVars, variant, sess, admitVars, sliceVars, rangeVars,
                   botVars, routeVars, loadVars, stallVars, pipeVars, evictVars>>

\* the callback of the setTimeout of saveStore; writeFileSync may throw, which
\* is caught and logged
SaveTimer(i) ==
    /\ ~sv.exited
    /\ i \in 1..Len(sv.timers)
    /\ sv.timers[i] <= sv.now
    /\ \E ok \in BOOLEAN :
        /\ disk' = IF ok THEN [exists |-> TRUE, data |-> store] ELSE disk
        /\ sv' = [sv EXCEPT !.timers = SubSeq(@, 1, i - 1) \o SubSeq(@, i + 1, Len(@)),
                            !.writesSinceMut = @ + 1,
                            !.failed = ~ok]
    /\ saveTimeout' = (Len(sv.timers) > 1)
    /\ UNCHANGED <<store, maxEntries, regLog, bootAt, lookup>>
    /\ UNCHANGED <<rlVars, variant, sess, admitVars, sliceVars, rangeVars, botVars,
                   routeVars, loadVars, stallVars, pipeVars, evictVars>>

\* SIGINT / SIGTERM: shutdown() runs and the process exits, its timers with it
Shutdown ==
    /\ ~sv.exited
    /\ disk' = shutdown(disk, store, sv.timers)
    /\ sv' = [sv EXCEPT !.exited = TRUE, !.timers = << >>,
                        !.pendingAtExit = (sv.timers # << >>),
                        !.atExit = store]
    /\ saveTimeout' = FALSE
    /\ UNCHANGED <<store, maxEntries, regLog, bootAt, lookup>>
    /\ UNCHANGED <<rlVars, variant, sess, admitVars, sliceVars, rangeVars, botVars,
                   routeVars, loadVars, stallVars, pipeVars, evictVars>>

InitSave ==
    /\ ev = NoEvict
    /\ pp = NoPipe
    /\ stl = NoStall
    /\ ld = NoLoad
    /\ sv = NoSave
    /\ rt = NoRoute
    /\ SetRLInit
    /\ variant = "stream"
    /\ sess = [s \in Sessions |-> IdleSession]
    /\ held = EmptyBag
    /\ sinceRelease = NoAdmits
    /\ sl = NoSlice
    /\ rq = NoRequest
    /\ bot = NoBot
    /\ disk = Missing
    /\ maxEntries = MaxEntriesBound
    /\ store = loadStore(disk)
    /\ saveTimeout = FALSE
    /\ regLog = << >>
    /\ bootAt = 0
    /\ lookup = NoLookup

NextSave ==
    \/ \E entry \in nextEntry, token \in generateToken : Mutate(entry, token)
    \/ Tick
    \/ \E i \in 1..Len(sv.timers) : SaveTimer(i)
    \/ Shutdown

SpecSave == InitSave /\ [][NextSave]_vars

\* the clock runs and a timer that is due fires
SpecSaveFair ==
    SpecSave /\ WF_vars(Tick) /\ WF_vars(\E i \in 1..Len(sv.timers) : SaveTimer(i))

----------------------------------------------------------------------------
(* SpecLoad: loadStore() on whatever file it finds, and the registry calls
   that follow.  A JavaScript value that may stand in `store` is described by
   its type, whether it has an `entries` object, what its `order` is ("array",
   "string" or "absent"), and the two members when they are there. *)

JsValue(type, hasEntries, orderKind, entries, order) ==
    [type |-> type, hasEntries |-> hasEntries, orderKind |-> orderKind,
     entries |-> entries, order |-> order]

\* { entries: {}, order: [] }
EmptyLoaded == JsValue("object", TRUE, "array", EmptyStore.entries, << >>)

OneEntry == [t \in {"k9"} |-> FileEntryOf("f", 9)]

\* what JSON.parse can return for the files tried
JsonValues ==
    { JsValue("null", FALSE, "absent", EmptyStore.entries, << >>),
      JsValue("number", FALSE, "absent", EmptyStore.entries, << >>),
      JsValue("array", FALSE, "absent", EmptyStore.entries, << >>),
      JsValue("object", FALSE, "absent", EmptyStore.entries, << >>),
      JsValue("object", TRUE, "absent", OneEntry, << >>),
      JsValue("object", FALSE, "array", EmptyStore.entries, << >>),
      JsValue("object", FALSE, "array", EmptyStore.entries, <<"k9">>),
      JsValue("object", TRUE, "string", OneEntry, <<"k", "9">>),
      JsValue("object", TRUE, "array", OneEntry, <<"k9">>),
      EmptyLoaded }

StoreFiles ==
    {[kind |-> k, value |-> EmptyLoaded] : k \in {"missing", "unreadable", "notjson"}}
        \cup {[kind |-> "json", value |-> v] : v \in JsonValues}

\* the file holds a store: an object with an entries object and an order array
WellShaped(file) ==
    /\ file.kind = "json"
    /\ file.value.type = "object"
    /\ file.value.hasEntries
    /\ file.value.orderKind = "array"

\* store.order.length throws a TypeError: store is null, or store.order is
\* undefined
orderLengthThrows(v) == v.type = "null" \/ v.orderKind = "absent"

\* loadStore() on any file: existsSync, readFileSync, JSON.parse, the log line
\* that reads store.order.length, and the catch that resets the store
loadStoreAny(file) ==
    IF file.kind = "missing" THEN EmptyLoaded
    ELSE IF file.kind \in {"unreadable", "notjson"} THEN EmptyLoaded
    ELSE IF orderLengthThrows(file.value) THEN EmptyLoaded
    ELSE file.value

\* the members of a loaded value as a store
AsStore(v) == [entries |-> v.entries, order |-> v.order]

\* registerFile(entry) on a loaded value: the new value and whether it threw
registerFileAny(v, max, entry, token) ==
    IF v.orderKind = "string"
    THEN \* order.shift is not a function / order.push is not a function
         [threw |-> TRUE,
          value |-> IF Len(v.order) >= max \/ ~v.hasEntries THEN v
                    ELSE [v EXCEPT !.entries =
                            [t \in (DOMAIN v.entries) \cup {token} |->
                                IF t = token THEN entry ELSE v.entries[t]]]]
    ELSE IF ~v.hasEntries
    THEN \* delete store.entries[oldestToken] / store.entries[token] = entry
         [threw |-> TRUE,
          value |-> IF atLimit(AsStore(v), max) /\ v.order # << >>
                    THEN [v EXCEPT !.order = Tail(@)] ELSE v]
    ELSE LET st == registerFile(AsStore(v), max, entry, token)
         IN  [threw |-> FALSE,
              value |-> [v EXCEPT !.entries = st.entries, !.order = st.order]]

\* getFileEntry(token) on a loaded value
getFileEntryAny(v, token) ==
    IF ~v.hasEntries THEN [threw |-> TRUE, result |-> NotFound]
    ELSE [threw |-> FALSE, result |-> getFileEntry(AsStore(v), token)]

\* module initialization: loadStore()
ModuleInit(file) ==
    /\ ld.phase = "none"
    /\ ld' = [phase |-> "loaded", file |-> file, store |-> loadStoreAny(file),
              regs |-> 0, call |-> "", threw |-> FALSE, result |-> NotFound]
    /\ UNCHANGED <<rlVars, storeVars, variant, sess, admitVars, sliceVars, rangeVars,
                   botVars, routeVars, saveVars, stallVars, pipeVars, evictVars>>

RegisterAny(token) ==
    /\ ld.phase = "loaded"
    /\ ld.regs < MaxRegs
    /\ \E res \in {registerFileAny(ld.store, maxEntries,
                                   FileEntryOf("f", ld.regs + 1), token)} :
         ld' = [ld EXCEPT !.store = res.value, !.regs = @ + 1,
                          !.call = "registerFile", !.threw = res.threw,
                          !.result = FileEntryOf("f", ld.regs + 1)]
    /\ UNCHANGED <<rlVars, storeVars, variant, sess, admitVars, sliceVars, rangeVars,
                   botVars, routeVars, saveVars, stallVars, pipeVars, evictVars>>

GetAny(token) ==
    /\ ld.phase = "loaded"
    /\ \E res \in {getFileEntryAny(ld.store, token)} :
         ld' = [ld EXCEPT !.call = "getFileEntry", !.threw = res.threw,
                          !.result = res.result]
    /\ UNCHANGED <<rlVars, storeVars, variant, sess, admitVars, sliceVars, rangeVars,
                   botVars, routeVars, saveVars, stallVars, pipeVars, evictVars>>

InitLoad ==
    /\ ev = NoEvict
    /\ pp = NoPipe
    /\ stl = NoStall
    /\ ld = NoLoad
    /\ sv = NoSave
    /\ rt = NoRoute
    /\ SetRLInit
    /\ variant = "stream"
    /\ sess = [s \in Sessions |-> IdleSession]
    /\ held = EmptyBag
    /\ sinceRelease = NoAdmits
    /\ sl = NoSlice
    /\ rq = NoRequest
    /\ bot = NoBot
    /\ disk = Missing
    /\ maxEntries \in 1..MaxEntriesBound
    /\ store = EmptyStore
    /\ saveTimeout = FALSE
    /\ regLog = << >>
    /\ bootAt = 0
    /\ lookup = NoLookup

\* the tokens a call may name: the one on file and the first new ones
LoadTokens == {"k9", "k1", "k2"}

NextLoad ==
    \/ \E file \in StoreFiles : ModuleInit(file)
    \/ \E token \in LoadTokens : RegisterAny(token)
    \/ \E token \in LoadTokens : GetAny(token)

SpecLoad == InitLoad /\ [][NextLoad]_vars

----------------------------------------------------------------------------
(* SpecStall: the stall detection of one streaming session against a clock.
   One tick of stl.now is 30 s, the period of the iterable handler's
   setInterval; the session starts at tick 0. *)

\* 120000 ms in ticks
StallTicks == 4

\* the session's locals once streaming is set up, total chunks to forward
StallStart(total) ==
    [total |-> total, now |-> 0, written |-> 0,
     lastProgress |-> 0,   \* the iterable handler's lastProgress = Date.now()
     armed |-> TRUE,       \* stallTimeout is set and not cleared
     cleanedUp |-> FALSE, complete |-> FALSE,
     stalled |-> FALSE,    \* cleanup('stall timeout') ran
     lastForward |-> 0,    \* history: when the last byte was forwarded
     maxGap |-> 0]         \* history: the longest time without a forwarded byte

\* cleanup(reason) as far as the stall detection goes
stallCleanup(st) == [st EXCEPT !.cleanedUp = TRUE, !.armed = FALSE]

\* if (!cleanedUp && written < chunkSize), the elapsed time apart
stallTest(st) == ~st.cleanedUp /\ st.written < st.total

\* the stream handler's setTimeout(..., 120000) is due
timeoutDue(st) == st.now >= StallTicks

\* the iterable handler's Date.now() - lastProgress > 120000
noProgress(st) == st.now - st.lastProgress > StallTicks

\* sliceTransform forwards a chunk; the last one completes the transfer, and
\* the iterable handler then calls cleanup('stream complete')
Forward ==
    /\ stl.total > 0
    /\ ~stl.cleanedUp /\ ~stl.complete
    /\ LET st == [stl EXCEPT !.written = @ + 1,
                             !.lastProgress = stl.now,
                             !.lastForward = stl.now,
                             !.complete = (stl.written + 1 >= stl.total)]
       IN  stl' = IF st.complete /\ variant = "iterable" THEN stallCleanup(st) ELSE st
    /\ UNCHANGED <<rlVars, storeVars, variant, sess, admitVars, sliceVars, rangeVars,
                   botVars, routeVars, saveVars, loadVars, pipeVars, evictVars>>

\* stream handler: pipeTo settles after the last chunk; or, in either handler,
\* the request's 'close': cleanup runs
StallSessionEnds ==
    /\ stl # NoStall
    /\ ~stl.cleanedUp
    /\ stl' = stallCleanup(stl)
    /\ UNCHANGED <<rlVars, storeVars, variant, sess, admitVars, sliceVars, rangeVars,
                   botVars, routeVars, saveVars, loadVars, pipeVars, evictVars>>

\* 30 s pass
StallTick ==
    /\ stl # NoStall
    /\ stl.now < MaxTime
    /\ stl' = [stl EXCEPT !.now = @ + 1,
                          !.maxGap = Max(@, stl.now + 1 - stl.lastForward)]
    /\ UNCHANGED <<rlVars, storeVars, variant, sess, admitVars, sliceVars, rangeVars,
                   botVars, routeVars, saveVars, loadVars, pipeVars, evictVars>>

\* stream handler: the callback of setTimeout(..., 120000), once
StallTimeoutFires ==
    /\ variant = "stream"
    /\ stl # NoStall
    /\ stl.armed
    /\ timeoutDue(stl)
    /\ stl' = IF stallTest(stl)
              THEN [stallCleanup(stl) EXCEPT !.stalled = TRUE]
              ELSE [stl EXCEPT !.armed = FALSE]
    /\ UNCHANGED <<rlVars, storeVars, variant, sess, admitVars, sliceVars, rangeVars,
                   botVars, routeVars, saveVars, loadVars, pipeVars, evictVars>>

\* iterable handler: the callback of setInterval(..., 30000)
StallIntervalFires ==
    /\ variant = "iterable"
    /\ stl # NoStall
    /\ stl.armed
    /\ stl.now >= 1
    /\ stl' = IF stallTest(stl) /\ noProgress(stl)
              THEN [stallCleanup(stl) EXCEPT !.stalled = TRUE]
              ELSE stl
    /\ UNCHANGED <<rlVars, storeVars, variant, sess, admitVars, sliceVars, rangeVars,
                   botVars, routeVars, saveVars, loadVars, pipeVars, evictVars>>

InitStall ==
    /\ ev = NoEvict
    /\ pp = NoPipe
    /\ \E total \in 1..(MaxChunks + 2) : stl = StallStart(total)
    /\ ld = NoLoad
    /\ sv = NoSave
    /\ rt = NoRoute
    /\ SetRLInit
    /\ StoreFixed
    /\ variant \in Variants
    /\ sess = [s \in Sessions |-> IdleSession]
    /\ held = EmptyBag
    /\ sinceRelease = NoAdmits
    /\ sl = NoSlice
    /\ rq = NoRequest
    /\ bot = NoBot

NextStall ==
    \/ Forward
    \/ StallSessionEnds
    \/ StallTick
    \/ StallTimeoutFires
    \/ StallIntervalFires

SpecStall == InitStall /\ [][NextStall]_vars

----------------------------------------------------------------------------
(* SpecPipe: one GET session of the iterable handler, chunk by chunk: the
   parallel part downloads behind tg.downloadAsIterable, each gated by the
   throttle callback, and the chain Readable.from -> sliceTransform -> res.
   A remote part is one chunk and the window asked for is pp.total chunks.
   Stream callbacks that follow one another without waiting for I/O are one
   step: a chunk that arrives moves down the chain as far as it can go. *)

Workers == 1..MaxPool

\* the session once the handler has returned: headers written and flushed,
\* pipe chain set up, pool downloads about to call throttle
PipeStart(total, parts, pool) ==
    [phase |-> "streaming", status |-> 200, total |-> total, parts |-> parts,
     pool |-> pool,        \* parallel part downloads
     worker |-> [w \in Workers |-> IF w <= pool THEN "idle" ELSE "off"],
     requested |-> 0,      \* parts asked of the remote source
     got |-> 0,            \* parts downloaded and not yet yielded by the iterable
     rd |-> 0,             \* chunks in the Readable (highWaterMark 1)
     tb |-> 0,             \* chunks pushed by sliceTransform, not yet written to res
     needDrain |-> FALSE,  \* res.writableNeedDrain
     written |-> 0,        \* chunks pushed by sliceTransform
     resWrites |-> 0,      \* chunks written to res
     ended |-> FALSE,      \* this.push(null)
     resEnded |-> FALSE,   \* res.end() by the pipe
     cleanedUp |-> FALSE, aborted |-> FALSE, closed |-> FALSE, destroyed |-> FALSE,
     terminal |-> "",      \* "completed" | "aborted" | "errored"
     lateWrites |-> 0,     \* history: chunks written to res after cleanup ran
     peak |-> 0]           \* history: the most chunks held at once

\* chunks downloaded and not yet written to the response
Held(st) == st.got + st.rd + st.tb

\* what the session's end is called after cleanup(reason)
TerminalOf(reason) ==
    IF reason = "stream complete" THEN "completed"
    ELSE IF reason \in {"client disconnect", "stall timeout"} THEN "aborted"
    ELSE "errored"

\* cleanup(reason) of the iterable handler
pipeCleanup(st, reason) ==
    IF st.cleanedUp THEN st
    ELSE [st EXCEPT !.cleanedUp = TRUE, !.aborted = TRUE,
                    !.terminal = TerminalOf(reason)]

\* the pipe's 'data' handler: res.write(chunk), which leaves the response
\* needing a drain (a chunk is far larger than its highWaterMark)
resWrite(st) ==
    [st EXCEPT !.resWrites = @ + 1, !.needDrain = TRUE,
               !.lateWrites = IF st.cleanedUp THEN @ + 1 ELSE @]

\* sliceTransform.transform(chunk) on the chunk at the head of the Readable
pipeTransform(st) ==
    LET taken == [st EXCEPT !.rd = @ - 1]
        flowing == ~st.needDrain /\ st.tb = 0 /\ ~st.destroyed
        pushed == IF flowing
                  THEN resWrite([taken EXCEPT !.written = @ + 1])
                  ELSE [taken EXCEPT !.written = @ + 1, !.tb = @ + 1]
    IN  IF st.written >= st.total THEN [taken EXCEPT !.ended = TRUE]
        ELSE IF pushed.written >= pushed.total
        THEN pipeCleanup([pushed EXCEPT !.ended = TRUE], "stream complete")
        ELSE pushed

\* the chain runs until nothing more can move without I/O
RECURSIVE settle(_)
settle(st) ==
    IF st.tb > 0 /\ ~st.needDrain /\ ~st.destroyed
    THEN settle(resWrite([st EXCEPT !.tb = @ - 1]))
    ELSE IF st.rd > 0 /\ st.tb = 0 /\ ~st.destroyed
    THEN settle(pipeTransform(st))
    ELSE IF st.got > 0 /\ st.rd = 0 /\ ~st.aborted /\ ~st.destroyed
    THEN settle([st EXCEPT !.got = @ - 1, !.rd = @ + 1])
    ELSE IF st.ended /\ st.tb = 0 /\ ~st.resEnded /\ ~st.destroyed
    THEN settle(pipeCleanup([st EXCEPT !.resEnded = TRUE], "stream complete"))
    ELSE [st EXCEPT !.peak = Max(@, Held(st))]

\* throttle: if (res.writableNeedDrain) await new Promise(r => res.once('drain', r))
throttle(st) == st.needDrain

\* a pool download calls throttle and, when it does not have to wait, asks
\* the remote source for the next part
nextDownload(st, w) ==
    IF st.aborted \/ st.requested >= st.parts THEN [st EXCEPT !.worker[w] = "off"]
    ELSE IF throttle(st) THEN [st EXCEPT !.worker[w] = "waiting"]
    ELSE [st EXCEPT !.worker[w] = "fetching", !.requested = @ + 1]

SetPipe(st) ==
    /\ pp' = st
    /\ UNCHANGED <<rlVars, storeVars, variant, sess, admitVars, sliceVars, rangeVars,
                   botVars, routeVars, saveVars, loadVars, stallVars, evictVars>>

\* a download of the pool starts: its first throttle call
PoolStart(w) ==
    /\ pp.phase = "streaming"
    /\ pp.worker[w] = "idle"
    /\ SetPipe(nextDownload(pp, w))

\* a part arrives: it is put in the iterable's buffer, the download goes on to
\* its next throttle call, and the chunk moves down the chain.  After an abort
\* the call fails instead and the download stops.
PartArrives(w) ==
    /\ pp.phase = "streaming"
    /\ pp.worker[w] = "fetching"
    /\ SetPipe(IF pp.aborted THEN [pp EXCEPT !.worker[w] = "off"]
               ELSE settle(nextDownload([pp EXCEPT !.got = @ + 1], w)))

\* res emits 'drain': the pipe resumes, and every throttle call that waits
\* resolves, each download asking for its next part
RECURSIVE release(_, _)
release(st, ws) ==
    IF ws = {} THEN st
    ELSE LET w == CHOOSE x \in ws : TRUE
             go == IF st.aborted \/ st.requested >= st.parts
                   THEN [st EXCEPT !.worker[w] = "off"]
                   ELSE [st EXCEPT !.worker[w] = "fetching", !.requested = @ + 1]
         IN  release(go, ws \ {w})

ResDrain ==
    /\ pp.phase = "streaming"
    /\ pp.needDrain
    /\ ~pp.destroyed
    /\ SetPipe(release(settle([pp EXCEPT !.needDrain = FALSE]),
                       {w \in Workers : pp.worker[w] = "waiting"}))

\* the request's 'close' (the client went away, or the response was ended
\* and sent): cleanup('client disconnect'); nothing more reaches the client
PipeClose ==
    /\ pp.phase = "streaming"
    /\ ~pp.closed
    /\ SetPipe(pipeCleanup([pp EXCEPT !.closed = TRUE, !.destroyed = TRUE,
                                      !.needDrain = FALSE], "client disconnect"))

\* the setInterval check finds no progress for two minutes
PipeStall ==
    /\ pp.phase = "streaming"
    /\ ~pp.cleanedUp
    /\ pp.written < pp.total
    /\ SetPipe([pipeCleanup(pp, "stall timeout") EXCEPT !.destroyed = TRUE,
                                                        !.needDrain = FALSE])

\* readable.on('error'): a download failed
PipeSourceError ==
    /\ pp.phase = "streaming"
    /\ ~pp.aborted
    /\ \E w \in Workers : pp.worker[w] = "fetching"
    /\ SetPipe(pipeCleanup(pp, "stream error"))

InitPipe ==
    /\ ev = NoEvict
    /\ \E total \in 1..MaxParts, pool \in 1..MaxPool :
          pp = PipeStart(total, MaxParts, pool)
    /\ stl = NoStall
    /\ ld = NoLoad
    /\ sv = NoSave
    /\ rt = NoRoute
    /\ SetRLInit
    /\ StoreFixed
    /\ variant = "iterable"
    /\ sess = [s \in Sessions |-> IdleSession]
    /\ held = EmptyBag
    /\ sinceRelease = NoAdmits
    /\ sl = NoSlice
    /\ rq = NoRequest
    /\ bot = NoBot

NextPipe ==
    \/ \E w \in Workers : PoolStart(w)
    \/ \E w \in Workers : PartArrives(w)
    \/ ResDrain
    \/ PipeClose
    \/ PipeStall
    \/ PipeSourceError

SpecPipe == InitPipe /\ [][NextPipe]_vars

----------------------------------------------------------------------------
(* SpecEvict: registerFile one loop iteration at a time, for every
   MAX_FILE_ENTRIES from 0 up (z.coerce.number() accepts 0), over the
   registries that registering and restarting with another limit lead to.
   ev.shifts counts the iterations of the call under way, up to MaxShifts. *)

EvictTokens == {"k1", "k2", "k3", "k4"}
EvictLimits == 0..MaxEntriesBound

\* store.order.shift() and the delete that follows: shift() of an empty
\* array returns undefined and the delete is skipped
shiftStep(st) ==
    IF st.order = << >> THEN st ELSE shiftOldest(st)

SetEvict(next) ==
    /\ ev' = next
    /\ UNCHANGED <<rlVars, storeVars, variant, sess, admitVars, sliceVars, rangeVars,
                   botVars, routeVars, saveVars, loadVars, stallVars, pipeVars>>

\* registerFile(entry) is called and stands at its while
CallRegisterFile(entry) ==
    /\ ev.phase = "idle"
    /\ SetEvict([ev EXCEPT !.phase = "loop", !.entry = entry, !.shifts = 0])

\* the loop condition holds: one iteration of the body
EvictIteration ==
    /\ ev.phase = "loop"
    /\ atLimit(ev.store, ev.max)
    /\ SetEvict([ev EXCEPT !.store = shiftStep(ev.store),
                           !.shifts = Min(@ + 1, MaxShifts)])

\* the loop condition fails: the token is made, stored and returned
ReturnToken(token) ==
    /\ ev.phase = "loop"
    /\ ~atLimit(ev.store, ev.max)
    /\ token \notin DOMAIN ev.store.entries
    /\ SetEvict([ev EXCEPT
          !.phase = "idle",
          !.returned = token,
          !.store = [entries |-> [t \in (DOMAIN ev.store.entries) \cup {token} |->
                                    IF t = token THEN ev.entry ELSE ev.store.entries[t]],
                     order |-> Append(ev.store.order, token)]])

\* the process is restarted with another MAX_FILE_ENTRIES; loadStore takes
\* the saved registry as it is
RestartWithLimit(max) ==
    /\ ev.phase = "idle"
    /\ max # ev.max
    /\ SetEvict([ev EXCEPT !.max = max, !.returned = ""])

InitEvict ==
    /\ \E max \in EvictLimits :
          ev = [phase |-> "idle", store |-> EmptyStore, max |-> max,
                entry |-> NotFound, returned |-> "", shifts |-> 0]
    /\ pp = NoPipe
    /\ stl = NoStall
    /\ ld = NoLoad
    /\ sv = NoSave
    /\ rt = NoRoute
    /\ SetRLInit
    /\ StoreFixed
    /\ variant = "stream"
    /\ sess = [s \in Sessions |-> IdleSession]
    /\ held = EmptyBag
    /\ sinceRelease = NoAdmits
    /\ sl = NoSlice
    /\ rq = NoRequest
    /\ bot = NoBot

NextEvict ==
    \/ CallRegisterFile(FileEntryOf("f", 1))
    \/ EvictIteration
    \/ \E token \in EvictTokens : ReturnToken(token)
    \/ \E max \in EvictLimits : RestartWithLimit(max)

SpecEvict == InitEvict /\ [][NextEvict]_vars

\* the loop runs whenever it can
SpecEvictFair ==
    SpecEvict /\ WF_vars(EvictIteration) /\ WF_vars(\E token \in EvictTokens : ReturnToken(token))

----------------------------------------------------------------------------
(* SpecEnd: the stall detection over every window the handler can be left
   with: chunkSize = end - start + 1 is 0 for an object of 0 bytes
   (extractMediaInfo: fileSize || 0) and negative for a Range whose start lies
   after its end; stl.total is 0 and -1 then.  SpecEndFair lets time pass and
   the timers fire, and nothing else: the remote source and the client may
   stay silent for ever. *)

WindowTotals == (-1)..MaxChunks

InitEnd ==
    /\ \E total \in WindowTotals : stl = StallStart(total)
    /\ variant \in Variants
    /\ ev = NoEvict
    /\ pp = NoPipe
    /\ ld = NoLoad
    /\ sv = NoSave
    /\ rt = NoRoute
    /\ SetRLInit
    /\ StoreFixed
    /\ sess = [s \in Sessions |-> IdleSession]
    /\ held = EmptyBag
    /\ sinceRelease = NoAdmits
    /\ sl = NoSlice
    /\ rq = NoRequest
    /\ bot = NoBot

SpecEnd == InitEnd /\ [][NextStall]_vars

SpecEndFair ==
    SpecEnd /\ WF_vars(StallTick) /\ WF_vars(StallTimeoutFires)
            /\ WF_vars(StallIntervalFires)

----------------------------------------------------------------------------
(* Claims checked under SpecAdmit *)

PerTokenCount(t) == MapGetOr(activeStreamsPerToken, t, 0)
PerTokenFull(t) == PerTokenCount(t) >= MAX_CONCURRENT_STREAMS
GlobalFull == totalActiveStreams >= MAX_TOTAL_STREAMS
UsersFull == MapSize(streamsPerIP) >= MAX_USERS

\* this step is a release (an owed cleanup) for token t by client c
ReleaseStep(t, c) ==
    \E k \in {"live", "stale"} :
        BagIn(<<t, c, k>>, held) /\ held' = held (-) Owed(t, c, k)

\* C2: no admission decision gets past a limit: in every reachable state the
\* per-token count is <= MAX_CONCURRENT_STREAMS, the number of client
\* identities the limiter counts as active is <= MAX_USERS, and the global
\* count is <= MAX_TOTAL_STREAMS.
C2_LimitsHold ==
    /\ \A t \in DOMAIN activeStreamsPerToken :
          activeStreamsPerToken[t] <= MAX_CONCURRENT_STREAMS
    /\ MapSize(streamsPerIP) <= MAX_USERS
    /\ totalActiveStreams <= MAX_TOTAL_STREAMS

\* all three limits reached at once, and a further request is turned away
C2_Witness ==
    /\ \E t \in Tokens : PerTokenCount(t) = MAX_CONCURRENT_STREAMS
    /\ MapSize(streamsPerIP) = MAX_USERS
    /\ totalActiveStreams = MAX_TOTAL_STREAMS
    /\ BagCardinality(held) = MAX_TOTAL_STREAMS
    /\ \A t \in Tokens, c \in ClientIPs : ~checkRateLimit(RL, t, c).allowed

\* C3: after MAX_CONCURRENT_STREAMS admits for a token with no release in
\* between, every further admit for that token is rejected (per-file reason,
\* whatever the other counters are); it stays rejected until a release for
\* that token, after which an admit for that token is accepted.  The global
\* ceiling and the max-clients ceiling behave the same way.
C3_CeilingsUntilRelease ==
    /\ [](\A t \in Tokens :
            (sinceRelease[t] >= MAX_CONCURRENT_STREAMS \/ PerTokenFull(t))
                => \A c \in ClientIPs :
                      checkRateLimit(RL, t, c) = Rejected("Per-file limit reached"))
    /\ []((sinceRelease["any"] >= MAX_TOTAL_STREAMS \/ GlobalFull)
                => \A t \in Tokens, c \in ClientIPs :
                      ~checkRateLimit(RL, t, c).allowed)
    /\ [](UsersFull
                => \A t \in Tokens, c \in ClientIPs :
                      ~MapHas(streamsPerIP, c) => ~checkRateLimit(RL, t, c).allowed)
    /\ [][\A t \in Tokens, c \in ClientIPs :
            /\ (PerTokenFull(t) /\ ~PerTokenFull(t)')
                  => \E c2 \in ClientIPs : ReleaseStep(t, c2)
            /\ (PerTokenFull(t) /\ ReleaseStep(t, c))
                  => /\ PerTokenCount(t)' = MAX_CONCURRENT_STREAMS - 1
                     /\ \E c2 \in ClientIPs : checkRateLimit(RL', t, c2).allowed
            /\ (GlobalFull /\ ~GlobalFull')
                  => \E t2 \in Tokens, c2 \in ClientIPs : ReleaseStep(t2, c2)
            /\ (GlobalFull /\ ReleaseStep(t, c))
                  => /\ totalActiveStreams' = MAX_TOTAL_STREAMS - 1
                     /\ \E c2 \in ClientIPs : checkRateLimit(RL', t, c2).allowed
            /\ (UsersFull /\ ~UsersFull')
                  => \E t2 \in Tokens, c2 \in ClientIPs : ReleaseStep(t2, c2)
            /\ (UsersFull /\ ReleaseStep(t, c) /\ MapGetOr(streamsPerIP, c, 0) = 1)
                  => /\ MapSize(streamsPerIP') = MAX_USERS - 1
                     /\ \A c2 \in ClientIPs : checkRateLimit(RL', t, c2).allowed
          ]_vars

\* t2 is at its ceiling through consecutive admits while t1, one release
\* after being at its ceiling with the global ceiling reached too, admits again
C3_Witness ==
    /\ sinceRelease["t2"] = MAX_CONCURRENT_STREAMS
    /\ sinceRelease["t1"] = 0
    /\ PerTokenCount("t1") = MAX_CONCURRENT_STREAMS - 1
    /\ totalActiveStreams = MAX_TOTAL_STREAMS - 1
    /\ BagCardinality(held) = MAX_TOTAL_STREAMS - 1
    /\ checkRateLimit(RL, "t1", "ip1").allowed
    /\ ~checkRateLimit(RL, "t2", "ip1").allowed

\* the three limits, read off the limiter for a request for t from c
TokenAtLimit(t) ==
    t \in DOMAIN activeStreamsPerToken /\ activeStreamsPerToken[t] >= MAX_CONCURRENT_STREAMS
HasStream(c) == c \in DOMAIN streamsPerIP /\ streamsPerIP[c] > 0
UsersAtLimit(c) == ~HasStream(c) /\ Cardinality(DOMAIN streamsPerIP) >= MAX_USERS
GlobalAtLimit == totalActiveStreams >= MAX_TOTAL_STREAMS

\* the tokens a request may name: those with streams, and one without any
ProbeTokens == Tokens \cup {"t3"}

\* C18: the limiter's answer is that of the first failing check in the order
\* per-token, max-clients (new clients only), global; it accepts when none
\* fails, and a client that has a stream is never refused for max-clients.
C18_FirstFailingCheck ==
    \A t \in ProbeTokens, c \in ClientIPs :
        LET r == checkRateLimit(RL, t, c)
        IN  /\ TokenAtLimit(t) => r = Rejected("Per-file limit reached")
            /\ (~TokenAtLimit(t) /\ UsersAtLimit(c)) => r = Rejected("Max users reached")
            /\ (~TokenAtLimit(t) /\ ~UsersAtLimit(c) /\ GlobalAtLimit)
                  => r = Rejected("Global limit reached")
            /\ (~TokenAtLimit(t) /\ ~UsersAtLimit(c) /\ ~GlobalAtLimit) => r = Allowed
            /\ HasStream(c) => r.reason # "Max users reached"

\* four streams are held, two per token: a request for either token from a
\* new client fails all three checks and is refused for the per-token limit;
\* for a token without streams, a new client is refused for max-clients and
\* the client holding the streams for the global limit
C18_Witness ==
    /\ BagCardinality(held) >= MAX_TOTAL_STREAMS
    /\ \E t \in ProbeTokens, c \in ClientIPs :
          /\ TokenAtLimit(t) /\ UsersAtLimit(c) /\ GlobalAtLimit
          /\ checkRateLimit(RL, t, c).reason = "Per-file limit reached"
    /\ \E t \in ProbeTokens, c \in ClientIPs :
          /\ ~TokenAtLimit(t) /\ UsersAtLimit(c) /\ GlobalAtLimit
          /\ checkRateLimit(RL, t, c).reason = "Max users reached"
    /\ \E t \in ProbeTokens, c \in ClientIPs :
          /\ ~TokenAtLimit(t) /\ HasStream(c) /\ GlobalAtLimit
          /\ checkRateLimit(RL, t, c).reason = "Global limit reached"

----------------------------------------------------------------------------
(* Claims checked under Spec *)

\* C1: every admitted session releases its admission slot exactly once,
\* whichever path ends it: never more than one decrementStreamCount for the
\* session, and exactly one by the time its connection has closed.
C1_ReleasedExactlyOnce ==
    \A s \in Sessions :
        Admitted(sess[s]) =>
            /\ sess[s].released <= 1
            /\ sess[s].closed => sess[s].released = 1

\* C4: invoking a session's cleanup again, once it has run, changes no
\* admission counter and does not abort the remote fetch again.
C4_CleanupIdempotent ==
    /\ [](\A s \in Sessions : sess[s].aborts <= 1)
    /\ [][\A s \in Sessions :
            (sess[s].cleanedUp /\ sess'[s].cleanupCalls > sess[s].cleanupCalls)
                => /\ UNCHANGED rlVars
                   /\ sess'[s].aborts = sess[s].aborts
                   /\ sess'[s].released = sess[s].released]_vars

\* cleanup was invoked at least twice on a session (e.g. stall timeout, then
\* the 'close' that res.destroy() causes) while another stream is counted
C4_Witness ==
    \E s \in Sessions :
        /\ sess[s].cleanupCalls >= 2
        /\ sess[s].aborts = 1
        /\ sess[s].closed
        /\ totalActiveStreams > 0

\* C6: all admission counters are non-negative and the per-token counts and
\* the per-client counts each sum to the global count.
C6_CountersConsistent ==
    /\ totalActiveStreams >= 0
    /\ \A k \in DOMAIN activeStreamsPerToken : activeStreamsPerToken[k] >= 0
    /\ \A k \in DOMAIN streamsPerIP : streamsPerIP[k] >= 0
    /\ MapSum(activeStreamsPerToken) = totalActiveStreams
    /\ MapSum(streamsPerIP) = totalActiveStreams

\* the session was admitted and has not ended: nothing released its slot
Live(s) == Admitted(sess[s]) /\ sess[s].released = 0

CountersMatchLoad ==
    /\ totalActiveStreams = Cardinality({s \in Sessions : Live(s)})
    /\ \A t \in Tokens :
          MapGetOr(activeStreamsPerToken, t, 0)
              = Cardinality({s \in Sessions : Live(s) /\ sess[s].token = t})
    /\ \A c \in ClientIPs :
          MapGetOr(streamsPerIP, c, 0)
              = Cardinality({s \in Sessions : Live(s) /\ sess[s].ip = c})

\* C29: the global counter is the number of live sessions, and the counter of
\* each token and of each client is the number of live sessions with it.
C29_CountersEqualLoad == CountersMatchLoad

\* the same while no session has been released twice
C29_UnlessReleasedTwice ==
    (\A s \in Sessions : sess[s].released <= 1) => CountersMatchLoad

\* the session is over: its cleanup ran, its connection closed, or the
\* handler's catch block answered for it
Ended(s) == sess[s].cleanedUp \/ sess[s].closed \/ sess[s].phase = "failed"

\* C23: a session that started a remote fetch and is over, however it ended,
\* has had its cancellation signal fired (and fired once only).
C23_SignalFiredAtEnd ==
    \A s \in Sessions :
        /\ sess[s].aborts <= 1
        /\ (sess[s].fetch /\ Ended(s)) => sess[s].aborts = 1

\* the same for the sessions that cleanup or the connection's close ended
C23_ByCleanupOrClose ==
    \A s \in Sessions :
        /\ sess[s].aborts <= 1
        /\ (sess[s].fetch /\ (sess[s].cleanedUp \/ sess[s].closed)) => sess[s].aborts = 1

C15_HeadOnly ==
    \A s \in Sessions :
        sess[s].method = "HEAD" =>
            /\ sess[s].phase \in {"head", "failed"}
            /\ sess[s].released = 1
            /\ ~sess[s].fetch
            /\ ~sess[s].listening
            /\ ~sess[s].stallArmed
            /\ sess[s].piping = "none"
            /\ sess[s].cleanupCalls = 0
            /\ sess[s].phase = "head" => sess[s].status = 200 /\ sess[s].text = ""

\* a HEAD request was answered while a GET of the same client was streaming,
\* and its connection has closed; only the GET is still counted
C15_Witness ==
    \E s \in Sessions :
        /\ sess[s].phase = "head"
        /\ sess[s].closed
        /\ sess[s].released = 1
        /\ totalActiveStreams = 1

\* C16: an admitted request whose try block throws before the headers are
\* sent is answered 500 with the text 'Failed to stream file', and its slot
\* is released.
C16_ErrorBeforeHeaders ==
    \A s \in Sessions :
        sess[s].threw = "preHeaders" =>
            /\ sess[s].status = 500
            /\ sess[s].text = "Failed to stream file"
            /\ sess[s].released = 1

\* a request failed before its headers while another stream was counted, and
\* the counters are back to that one stream
C16_Witness ==
    \E s \in Sessions :
        /\ sess[s].threw = "preHeaders"
        /\ sess[s].status = 500
        /\ sess[s].closed
        /\ totalActiveStreams = 1

\* C17: when the try block throws after the headers are sent, the status
\* stays as written and no text is written into the response.
C17_ErrorAfterHeaders ==
    \A s \in Sessions :
        sess[s].threw \in {"postHeaders", "postListener", "postTimer"} =>
            /\ sess[s].status = 200
            /\ sess[s].text = ""

\* the limit a rejection text names is reached in the limiter
ReasonHolds(reason) ==
    \/ /\ reason = "Per-file limit reached"
       /\ \E t \in DOMAIN activeStreamsPerToken :
             activeStreamsPerToken[t] >= MAX_CONCURRENT_STREAMS
    \/ /\ reason = "Max users reached"
       /\ MapSize(streamsPerIP) >= MAX_USERS
    \/ /\ reason = "Global limit reached"
       /\ totalActiveStreams >= MAX_TOTAL_STREAMS

\* C19: a request for an unknown token is answered 404, a request the limiter
\* rejects is answered 503 with the reason of a limit that is reached; neither
\* changes an admission counter, starts a download or is ever released.
C19_RefusalsLeaveCounters ==
    /\ [][\A s \in Sessions :
            (sess[s].phase = "idle" /\ sess'[s].phase \in {"notfound", "rejected"})
                => /\ UNCHANGED rlVars
                   /\ sess'[s].phase = "notfound" => sess'[s].status = 404
                   /\ sess'[s].phase = "rejected" =>
                         sess'[s].status = 503 /\ ReasonHolds(sess'[s].text)]_vars
    /\ [](\A s \in Sessions :
            sess[s].phase \in {"notfound", "rejected"} =>
                /\ ~sess[s].fetch
                /\ ~sess[s].listening
                /\ sess[s].released = 0
                /\ sess[s].cleanupCalls = 0)

\* a second client was turned away with 503 while the first one's stream
\* stayed counted
C19_Witness ==
    \E s \in Sessions :
        /\ sess[s].phase = "rejected"
        /\ sess[s].status = 503
        /\ sess[s].text = "Max users reached"
        /\ sess[s].closed
        /\ totalActiveStreams = 1
        /\ MapSize(streamsPerIP) = 1

----------------------------------------------------------------------------
(* Claims checked under SpecSlice *)

RECURSIVE Contiguous(_, _)
\* the pieces of seq follow one another from offset from, none of them empty
Contiguous(seq, from) ==
    IF seq = << >> THEN TRUE
    ELSE /\ Head(seq).lo = from
         /\ Head(seq).hi > Head(seq).lo
         /\ Contiguous(Tail(seq), Head(seq).hi)

LastHi(seq, from) == IF seq = << >> THEN from ELSE seq[Len(seq)].hi

\* C5: for a valid window the bytes forwarded are exactly the object's bytes
\* from start on, in order and without gap, never past end; nothing is
\* forwarded before the first skipBytes bytes are dropped; and once the remote
\* source has produced the byte at end, exactly start..end was forwarded.
C5_ExactWindow ==
    sl.fileSize > 0 =>
        /\ Contiguous(sl.out, sl.start)
        /\ LastHi(sl.out, sl.start) <= sl.end + 1
        /\ LastHi(sl.out, sl.start) = sl.start + sl.written
        /\ sl.out # << >> => sl.skipped = sl.skipBytes
        /\ sl.skipped <= sl.skipBytes
        /\ sl.pos > sl.end => /\ LastHi(sl.out, sl.start) = sl.end + 1
                              /\ sl.out # << >>
                              /\ sl.ended

\* a window that starts off the alignment boundary, served from several
\* remote chunks, with the remote source having produced more than was asked
C5_Witness ==
    /\ sl.fileSize > 0
    /\ sl.alignedStart > 0
    /\ sl.skipBytes > 0
    /\ Len(sl.out) >= 2
    /\ sl.written = sl.chunkSize
    /\ sl.pos > sl.end + 1
    /\ sl.bytesStreamed > sl.skipBytes + sl.chunkSize


\* C12: the download starts at floor(start / alignment) * alignment and
\* skipBytes is start minus that offset, the alignment being 1 MiB for a file
\* of more than 10 MiB and 4 KiB for any other; so the offset is a multiple of
\* the alignment, not after start, and less than one alignment before it.
C12_AlignedOffset ==
    sl.fileSize > 0 =>
        LET alignment == IF sl.fileSize > 10485760 THEN 1048576 ELSE 4096
        IN  /\ sl.alignedStart = (sl.start \div alignment) * alignment
            /\ sl.skipBytes = sl.start - sl.alignedStart
            /\ sl.alignedStart <= sl.start
            /\ sl.alignedStart % alignment = 0
            /\ 0 <= sl.skipBytes /\ sl.skipBytes < alignment
            /\ sl.chunks = 0 => sl.pos = sl.alignedStart
            /\ sl.chunks > 0 => sl.bytesStreamed = sl.pos - sl.alignedStart

\* a 20 MiB file read from 1,500,000: the download ran from 1,048,576 and
\* 451,424 bytes were dropped before the first forwarded byte
C12_Witness ==
    /\ sl.fileSize = 20971520
    /\ sl.start = 1500000
    /\ sl.alignedStart = 1048576
    /\ sl.skipBytes = 451424
    /\ sl.skipped = 451424
    /\ sl.written > 0

\* the requested bytes have all been forwarded
AllForwarded == sl.fileSize > 0 /\ sl.written >= sl.chunkSize

----------------------------------------------------------------------------
(* Claims checked under SpecStore *)

\* the registrations made since the running process started
ThisLifetime == (bootAt + 1)..Len(regLog)

\* how many registrations followed registration i
LaterThan(i) == Len(regLog) - i

\* what a lookup of the token of registration i has to return
Resolves(i) ==
    IF LaterThan(i) < maxEntries THEN regLog[i].entry ELSE NotFound

ResolveUntilEvicted ==
    ~collided =>
        \A i \in ThisLifetime : getFileEntry(store, regLog[i].token) = Resolves(i)

LookupStep ==
    (lookup' # lookup /\ lookup' # NoLookup /\ ~collided) =>
        \A i \in ThisLifetime :
            regLog[i].token = lookup'.token => lookup'.result = Resolves(i)

EvictionStep ==
    (Len(regLog') = Len(regLog) + 1 /\ ~collided') =>
        LET new == regLog'[Len(regLog')].token
            n == Len(store.order)
        IN  /\ n < maxEntries => store'.order = Append(store.order, new)
            /\ n = maxEntries =>
                  /\ store'.order = Append(Tail(store.order), new)
                  /\ DOMAIN store'.entries =
                        ((DOMAIN store.entries) \ {Head(store.order)}) \cup {new}
            /\ \E k \in 0..n : store'.order = Append(SubSeq(store.order, k + 1, n), new)

\* C7: a token registered by the running process resolves to its entry while
\* fewer than maxEntries registrations followed it and to not-found after
\* that, whatever lookups come in between; a registration below capacity
\* evicts nothing, a registration at capacity evicts exactly the oldest token,
\* and what a registration evicts is always a prefix of the order.
C7_ResolveUntilEvicted ==
    /\ []ResolveUntilEvicted
    /\ [][LookupStep /\ EvictionStep]_vars

\* a token of this lifetime has been evicted by maxEntries later
\* registrations and looked up since, while the newest token still resolves
C7_Witness ==
    /\ ~collided
    /\ \E i \in ThisLifetime :
          /\ LaterThan(i) = maxEntries
          /\ lookup = [token |-> regLog[i].token, result |-> NotFound]
          /\ getFileEntry(store, regLog[Len(regLog)].token) = regLog[Len(regLog)].entry
          /\ Len(store.order) = maxEntries

\* C8: in every state of the registry, the state right after a start that
\* loaded it from disk included, it holds at most maxEntries tokens.
C8_SizeWithinMax ==
    /\ Len(store.order) <= maxEntries
    /\ Cardinality(DOMAIN store.entries) <= maxEntries

\* where registration i's token stands in the eviction order, 0 if nowhere
PlaceOf(i) ==
    LET at == {k \in 1..Len(store.order) : store.order[k] = regLog[i].token}
    IN  IF at = {} THEN 0 ELSE CHOOSE k \in at : TRUE

\* the tokens of this lifetime stand in the order as they were registered
InsertionOrder ==
    ~collided =>
        \A i, j \in ThisLifetime :
            (i < j /\ PlaceOf(i) # 0) => (PlaceOf(j) # 0 /\ PlaceOf(i) < PlaceOf(j))

----------------------------------------------------------------------------
(* Claims checked under SpecRange *)

\* bytes=<digits>-<digits or nothing>, and nothing else
WellFormedRange(text) ==
    /\ MatchAt(text, 1)
    /\ LET e1 == DigitRunEnd(text, Len(BytesEq) + 1)
       IN  /\ e1 > Len(BytesEq) + 1
           /\ DigitRunEnd(text, e1 + 1) = Len(text) + 1

\* the header is there and is not a range: the suffix form, or no range at all
MalformedRange == rq.range.present /\ ~WellFormedRange(rq.range.text)

\* C9: a request with Range bytes=a-b, 0 <= a <= b <= fileSize - 1, is answered
\* 206 with Content-Range "bytes a-b/fileSize" and Content-Length b - a + 1; a
\* request without a Range header is answered 200 with Content-Length fileSize
\* and no Content-Range.
C9_RangeHeaders ==
    rq.stage = "headersSent" =>
        /\ (rq.kind = "closed" /\ 0 <= rq.a /\ rq.a <= rq.b /\ rq.b <= rq.fileSize - 1) =>
              /\ rq.head.status = 206
              /\ rq.head.hasContentRange
              /\ rq.head.contentRange =
                    BytesSp \o NumberToString(rq.a) \o <<"-">> \o NumberToString(rq.b)
                        \o <<"/">> \o NumberToString(rq.fileSize)
              /\ rq.head.contentLength = rq.b - rq.a + 1
        /\ rq.kind = "none" =>
              /\ rq.head.status = 200
              /\ rq.head.contentLength = rq.fileSize
              /\ ~rq.head.hasContentRange

\* Range: bytes=100-199 on a 1000-byte file has been answered
\* 206, Content-Range: bytes 100-199/1000, Content-Length: 100
C9_Witness ==
    /\ rq.stage = "headersSent"
    /\ rq.fileSize = 1000
    /\ rq.range.text = BytesEq \o <<"1", "0", "0", "-", "1", "9", "9">>
    /\ rq.head.status = 206
    /\ rq.head.contentRange =
          BytesSp \o <<"1", "0", "0", "-", "1", "9", "9", "/", "1", "0", "0", "0">>
    /\ rq.head.contentLength = 100

\* C10: a request whose Range header is present but malformed, or of the
\* suffix form bytes=-N, is answered as a request without one: 200, the
\* window 0..fileSize-1, Content-Length fileSize, no Content-Range.
C10_MalformedIsNoRange ==
    (rq.stage = "headersSent" /\ MalformedRange) =>
        /\ rq.head.status = 200
        /\ rq.head.start = 0
        /\ rq.head.end = rq.fileSize - 1
        /\ rq.head.contentLength = rq.fileSize
        /\ ~rq.head.hasContentRange


\* C11: the end of the serving window never lies beyond fileSize - 1: a
\* requested end past the object is answered with end = fileSize - 1, and with
\* the Content-Length and Content-Range of that window.
C11_EndClamped ==
    rq.stage = "headersSent" =>
        /\ rq.head.end <= rq.fileSize - 1
        /\ (rq.kind = "closed" /\ rq.a <= rq.fileSize - 1 /\ rq.b > rq.fileSize - 1) =>
              /\ rq.head.end = rq.fileSize - 1
              /\ rq.head.contentLength = rq.fileSize - rq.a
              /\ rq.head.contentRange =
                    BytesSp \o NumberToString(rq.a) \o <<"-">>
                        \o NumberToString(rq.fileSize - 1)
                        \o <<"/">> \o NumberToString(rq.fileSize)


----------------------------------------------------------------------------
(* Claims checked under SpecBot *)

\* the sender is on the allow-list, or the list is empty
Listed(u) == bot.allowedUsers = {} \/ u \in bot.allowedUsers

\* C20: only senders whom the allow-list admits (everyone when it is empty,
\* the listed ids otherwise) are given a token; a message of any other sender
\* is answered as unauthorized and leaves the registry as it was.
C20_OnlyAllowedRegister ==
    /\ [](\A u \in bot.grants : Listed(u))
    /\ [](bot.reply # "" => (bot.reply = "unauthorized" <=> ~Listed(bot.sender)))
    /\ [][(store' # store \/ regLog' # regLog \/ bot'.grants # bot.grants)
             => (Listed(bot'.sender) /\ bot'.reply = "file ready")]_vars
    /\ [][(bot' # bot /\ ~Listed(bot'.sender)) => UNCHANGED storeVars]_vars

\* with a list that names some users, a listed sender holds a token and the
\* last message, a file from an unlisted sender, was refused
C20_Witness ==
    /\ bot.allowedUsers # {}
    /\ bot.grants # {}
    /\ bot.reply = "unauthorized"
    /\ bot.sender \notin bot.allowedUsers
    /\ Len(store.order) > 0

----------------------------------------------------------------------------
(* Claims checked under SpecRoute *)

\* the pathname is /stream/<token> or /download/<token> with one token
TokenPath(pathname) ==
    /\ Len(pathname) = 3
    /\ pathname[1] = ""
    /\ pathname[2] \in {"stream", "download"}
    /\ pathname[3] # ""

\* C21: /health is answered 200 'OK' whatever the limiter holds and without
\* a change of its counters, and a pathname that is none of /health,
\* /stream/<token>, /download/<token> is answered 404.
C21_HealthAndUnknownRoutes ==
    /\ rt.pathname = HealthPath
          => (rt.status = 200 /\ rt.text = "OK" /\ ~rt.counted)
    /\ (rt.status # 0 /\ rt.pathname # HealthPath /\ ~TokenPath(rt.pathname))
          => rt.status = 404

\* the health half of C21 alone
C21_HealthOnly ==
    /\ [](rt.pathname = HealthPath => (rt.status = 200 /\ rt.text = "OK"))
    /\ [][(rt' # rt /\ rt'.pathname = HealthPath) => UNCHANGED rlVars]_vars

\* /health answered while every limit is reached
C21_HealthAtLimits ==
    /\ rt.pathname = HealthPath
    /\ totalActiveStreams >= MAX_TOTAL_STREAMS
    /\ MapSize(streamsPerIP) >= MAX_USERS
    /\ \A t \in Tokens : MapGetOr(activeStreamsPerToken, t, 0) >= MAX_CONCURRENT_STREAMS

----------------------------------------------------------------------------
(* Claims checked under SpecSave and SpecSaveFair *)

\* C26: at most one save timer is pending; a write comes no sooner than one
\* debounce window after the latest mutation, so mutations less than a window
\* apart have no write between them and share the one write that follows the
\* last of them; and while the process runs, a pending save ends in a write of
\* the registry as it then is (unless the disk refuses the write).
C26_DebouncedSave ==
    /\ [](Len(sv.timers) <= 1)
    /\ [](sv.writesSinceMut <= 1)
    /\ [][sv'.writesSinceMut > sv.writesSinceMut
            => (sv.now >= sv.lastMut + DebounceTicks /\ sv.writesSinceMut = 0)]_vars
    /\ [][(disk' # disk /\ ~sv'.exited) => disk' = [exists |-> TRUE, data |-> store]]_vars
    /\ (sv.timers # << >>) ~>
          (sv.exited \/ (sv.timers = << >> /\ sv.writesSinceMut = 1
                           /\ (sv.failed \/ disk = [exists |-> TRUE, data |-> store])))

\* three registrations were made, the last one at least a window and a half
\* after the start; its timer has fired and the disk holds the registry
C26_Witness ==
    /\ Len(regLog) = 3
    /\ sv.lastMut >= DebounceTicks + 1
    /\ sv.timers = << >>
    /\ sv.writesSinceMut = 1
    /\ ~sv.failed
    /\ ~sv.exited
    /\ disk = [exists |-> TRUE, data |-> store]

\* C27: when the process has exited on SIGINT / SIGTERM with a save pending,
\* the file holds the registry as it was at the exit.
C27_ShutdownFlushes ==
    (sv.exited /\ sv.pendingAtExit) => disk = [exists |-> TRUE, data |-> sv.atExit]

----------------------------------------------------------------------------
(* Claims checked under SpecLoad *)

\* C28: when the file is missing, unreadable, not JSON, or JSON that is not a
\* store, loadStore leaves the empty store, and no later registerFile or
\* getFileEntry throws: a registration is found by the lookups that follow.
C28_LoadNeverFatal ==
    (ld.phase = "loaded" /\ ~WellShaped(ld.file)) =>
        /\ ld.regs = 0 => ld.store = EmptyLoaded
        /\ ~ld.threw
        /\ ld.store.hasEntries /\ ld.store.orderKind = "array"

\* the cases of C28 in which the file has no usable order list
C28_WithoutOrder ==
    (ld.phase = "loaded" /\ ~WellShaped(ld.file)
        /\ (ld.file.kind # "json" \/ orderLengthThrows(ld.file.value))) =>
        /\ ld.regs = 0 => ld.store = EmptyLoaded
        /\ ~ld.threw
        /\ ld.store.hasEntries /\ ld.store.orderKind = "array"

----------------------------------------------------------------------------
(* Claims checked under SpecStall *)

\* C30: a session is ended by the stall detection only after two minutes went
\* by without a forwarded byte; one that forwards a byte in every two-minute
\* window is never ended by it.
C30_NoStallWhileProgress == stl.stalled => stl.maxGap >= StallTicks

\* the same for the iterable handler alone
C30_IterableOnly == (variant = "iterable" /\ stl.stalled) => stl.maxGap > StallTicks

\* the iterable handler ended a session that had stopped for over two minutes
C30_IterableStalls == variant = "iterable" /\ stl.stalled /\ stl.written > 0

----------------------------------------------------------------------------
(* Claims checked under SpecPipe *)

\* C22: body chunks are written only after the headers, the session's end is
\* named once and keeps its name, and once cleanup has run no chunk is
\* written to the response any more.
C22_LifecycleOrder ==
    /\ pp.phase = "streaming" =>
          /\ pp.resWrites > 0 => pp.status # 0
          /\ pp.cleanedUp <=> pp.terminal # ""
          /\ pp.lateWrites = 0

\* the same without the last part
C22_OrderAndTerminal ==
    /\ [](pp.phase = "streaming" =>
            /\ pp.resWrites > 0 => pp.status # 0
            /\ pp.cleanedUp <=> pp.terminal # "")
    /\ [][pp.terminal # "" => pp'.terminal = pp.terminal]_vars

\* the pipe holds no more chunks than the pool and the chain have room for
PipeRoom == MaxPool + 2

C24_WaitsForDrain ==
    pp.phase = "streaming" =>
        \A w \in Workers : pp.worker[w] = "waiting" => (pp.needDrain \/ pp.destroyed)

\* C24's bound with a pool of one download
C24_BoundedWithOneDownload ==
    (pp.phase = "streaming" /\ pp.pool = 1) => pp.peak <= PipeRoom

----------------------------------------------------------------------------
(* Claims checked under SpecEvict *)

\* the loop stands where its condition holds and its body changes nothing
EvictionStuck ==
    ev.phase = "loop" /\ atLimit(ev.store, ev.max) /\ shiftStep(ev.store) = ev.store

\* C33: for every limit from 0 up and every registry, the eviction loop of
\* registerFile never stands where its condition holds and its body changes
\* nothing, and it runs no more iterations than the registry had tokens.
C33_EvictionLoopExits ==
    ev.phase # "none" => (~EvictionStuck /\ ev.shifts <= MaxEntriesBound)

\* the same as termination: a call that started returns a token
C33_CallReturns == (ev.phase = "loop") ~> (ev.phase = "idle" /\ ev.returned # "")

\* with a limit of one or more the loop is never stuck
C33_ExitsWithPositiveLimit ==
    (ev.phase # "none" /\ ev.max >= 1) => ~EvictionStuck

----------------------------------------------------------------------------
(* Further claims checked under SpecRange *)

\* the Range header matches /bytes=(\d*)-(\d*)/
RangeMatches == Truthy(rq.range) /\ match(rq.range.text).found

\* C32: a request whose Range header matches bytes=<start>-<end> and that is
\* answered 2xx is served a window with 0 <= start <= end <= fileSize - 1 and
\* a Content-Length from 1 to fileSize.
C32_WindowWellFormed ==
    (rq.stage = "headersSent" /\ RangeMatches /\ rq.head.status \in 200..299) =>
        /\ 0 <= rq.head.start
        /\ rq.head.start <= rq.head.end
        /\ rq.head.end <= rq.fileSize - 1
        /\ 1 <= rq.head.contentLength
        /\ rq.head.contentLength <= rq.fileSize

\* a start after the end, or beyond the object, within the object's length
\* otherwise, has been answered 206 with a Content-Length of zero or less
C32_NonPositiveLength ==
    /\ rq.stage = "headersSent"
    /\ RangeMatches
    /\ rq.head.status = 206
    /\ rq.head.end <= rq.fileSize - 1
    /\ rq.head.contentLength <= 0

----------------------------------------------------------------------------
(* Claims checked under SpecEndFair *)

\* no stall check can end the session any more: the stream handler's timer
\* is spent, or written < chunkSize is false, which it then stays
StallCheckDead ==
    \/ ~(stl.written < stl.total)
    \/ (variant = "stream" /\ ~stl.armed)

C31_StallDetectionEnds ==
    (stl # NoStall /\ ~stl.cleanedUp) => ~StallCheckDead

\* a session with bytes still to forward is ended unless it goes on forwarding
C31_EndsWithBytesLeft ==
    (stl # NoStall /\ stl.written < stl.total /\ stl.lastProgress + StallTicks < MaxTime)
        ~> (stl.cleanedUp \/ stl.written >= stl.total
                \/ stl.lastProgress + StallTicks >= MaxTime)

====
